---- MODULE Spec2Model ----
(***************************************************************************)
(* A model of bulletty's feed core: the feed resolver get_feed_with_data   *)
(* (fetch, sniff, discover, recurse, parse), the feed-level parser, the    *)
(* entry-level parser and the helpers they use.                            *)
(*                                                                         *)
(* Texts are sequences of one-character strings, so that the functions     *)
(* that look inside a text (is_html, Url::parse, parse_date, ...) are      *)
(* computed on it.  An Option is a sequence of length 0 (None) or 1 (Some).*)
(***************************************************************************)
EXTENDS Integers, Sequences, FiniteSets, TLC

VARIABLES
    web,        \* the transport collaborator: what a GET of each url answers
    root,       \* the url the outermost caller passed to get_feed_with_data
    stack,      \* the call stack of get_feed_with_data, innermost call last
    ret,        \* Option: the Result the call that just returned hands back
    last,       \* history: Option, the record of the call that returned last
    efeed,      \* the FeedItem handed to get_feed_entries (Option)
    eret,       \* Option: the Result get_feed_entries returned
    doc,        \* the document handed to get_feed_entries_doc (Option)
    defaultauthor, \* the default author handed to get_feed_entries_doc
    out         \* Option: the Result get_feed_entries_doc returned

vars == <<web, root, stack, ret, last, efeed, eret, doc, defaultauthor, out>>

----------------------------------------------------------------------------
(* Options and Results *)

None == <<>>
Some(x) == <<x>>
IsSome(o) == Len(o) = 1
IsNone(o) == Len(o) = 0
Get(o) == o[1]
UnwrapOr(o, d) == IF IsSome(o) THEN o[1] ELSE d

Ok(v) == [ok |-> TRUE, val |-> v]
Err(e) == [ok |-> FALSE, err |-> e]

Min(a, b) == IF a <= b THEN a ELSE b

----------------------------------------------------------------------------
(* Texts *)

Whitespace == {" ", "\n", "\t", "\r"}

\* str::trim_start
TrimStart(s) ==
    IF \A i \in 1..Len(s) : s[i] \in Whitespace THEN <<>>
    ELSE SubSeq(s, CHOOSE i \in 1..Len(s) :
                      s[i] \notin Whitespace /\ \A j \in 1..(i - 1) : s[j] \in Whitespace,
                Len(s))

StartsWith(s, p) == Len(s) >= Len(p) /\ SubSeq(s, 1, Len(p)) = p

Take(s, n) == SubSeq(s, 1, Min(n, Len(s)))

T_DOCTYPE_HTML == <<"<", "!", "D", "O", "C", "T", "Y", "P", "E", " ", "h", "t", "m", "l">>
T_html == <<"<", "h", "t", "m", "l">>
T_HTML == <<"<", "H", "T", "M", "L">>

Uppers == <<"A", "B", "C", "D", "E", "F", "G", "H", "I", "J", "K", "L", "M",
            "N", "O", "P", "Q", "R", "S", "T", "U", "V", "W", "X", "Y", "Z">>
Lowers == <<"a", "b", "c", "d", "e", "f", "g", "h", "i", "j", "k", "l", "m",
            "n", "o", "p", "q", "r", "s", "t", "u", "v", "w", "x", "y", "z">>
Digits == <<"0", "1", "2", "3", "4", "5", "6", "7", "8", "9">>

Range(s) == {s[i] : i \in 1..Len(s)}

UpperSet == Range(Uppers)
Letters == Range(Uppers) \cup Range(Lowers)
DigitSet == Range(Digits)
LowerAlnum == Range(Lowers) \cup Range(Digits)

ToLowerChar(c) ==
    IF c \in UpperSet
    THEN Lowers[CHOOSE i \in 1..26 : Uppers[i] = c]
    ELSE c

to_lowercase(s) == [i \in 1..Len(s) |-> ToLowerChar(s[i])]

\* (mutant) the marks are compared without regard to case
is_html_anycase(content) ==
    LET trimmed == to_lowercase(TrimStart(content))
    IN  \/ StartsWith(trimmed, to_lowercase(T_DOCTYPE_HTML))
        \/ StartsWith(trimmed, T_html)

\* is_html(content)
is_html(content) ==
    LET trimmed == TrimStart(content)
    IN  \/ StartsWith(trimmed, T_DOCTYPE_HTML)
        \/ StartsWith(trimmed, T_html)
        \/ StartsWith(trimmed, T_HTML)

contains(s, p) ==
    \E i \in 1..(Len(s) - Len(p) + 1) : SubSeq(s, i, i + Len(p) - 1) = p

\* index of the first occurrence of character c in s, 0 when there is none
Find(s, c) ==
    IF \E i \in 1..Len(s) : s[i] = c
    THEN CHOOSE i \in 1..Len(s) : s[i] = c /\ \A j \in 1..(i - 1) : s[j] # c
    ELSE 0

----------------------------------------------------------------------------
(* Urls: url::Url on texts *)

T_http == <<"h", "t", "t", "p">>
T_https == <<"h", "t", "t", "p", "s">>

SchemeChars == Range(Uppers) \cup Range(Lowers) \cup Range(Digits) \cup {"+", "-", "."}

\* Url::parse(text): Some([scheme, rest]) for an absolute url, None for a text
\* without a scheme (a relative reference has no base here) or, for http and
\* https, without a host.
UrlParse(text) ==
    LET t == TrimStart(text)
        c == Find(t, ":")
        scheme == to_lowercase(SubSeq(t, 1, c - 1))
        rest == SubSeq(t, c + 1, Len(t))
    IN  IF c <= 1 THEN None
        ELSE IF t[1] \notin Letters THEN None
        ELSE IF \E i \in 1..(c - 1) : t[i] \notin SchemeChars THEN None
        ELSE IF scheme \in {T_http, T_https}
                /\ ~(StartsWith(rest, <<"/", "/">>) /\ Len(rest) > 2 /\ rest[3] # "/")
             THEN None
        ELSE Some([scheme |-> scheme, rest |-> rest])

IsHttpUrl(text) ==
    LET u == UrlParse(text)
    IN  IsSome(u) /\ (Get(u).scheme = T_http \/ Get(u).scheme = T_https)

\* scheme://host of an http(s) url text
Origin(url) ==
    LET c == Find(url, ":")
        after == SubSeq(url, c + 3, Len(url))
        s == Find(after, "/")
    IN  IF s = 0 THEN url ELSE SubSeq(url, 1, c + 2 + s - 1)

\* Url::join(base, href): an absolute href passes through, a rooted one
\* replaces the path of the base, another relative one replaces the last
\* segment of the path of the base; an href with a scheme that does not parse fails.
UrlJoin(base, href) ==
    LET c == Find(href, ":")
        o == Origin(base)
        path == SubSeq(base, Len(o) + 1, Len(base))
        lastslash == IF \E i \in 1..Len(path) : path[i] = "/"
                     THEN CHOOSE i \in 1..Len(path) :
                            path[i] = "/" /\ \A j \in (i + 1)..Len(path) : path[j] # "/"
                     ELSE 0
    IN  IF IsSome(UrlParse(href)) THEN Some(href)
        ELSE IF c > 0 /\ (\A i \in 1..(c - 1) : href[i] \in SchemeChars) THEN None
        ELSE IF href # <<>> /\ Head(href) = "/" THEN Some(o \o href)
        ELSE IF lastslash = 0 THEN Some(o \o <<"/">> \o href)
        ELSE Some(o \o SubSeq(path, 1, lastslash) \o href)

----------------------------------------------------------------------------
(* Feed discovery: html::Parser *)

T_atom == <<"a", "t", "o", "m">>
T_rss == <<"r", "s", "s">>

is_feed(link_type) ==
    LET lt == to_lowercase(link_type)
    IN  contains(lt, T_atom) \/ contains(lt, T_rss)

\* One element of the parsed HTML: its tag and the attributes discovery reads.
Element(tag, rel, type, href) == [tag |-> tag, rel |-> rel, type |-> type, href |-> href]

\* (mutant) the selector does not name the tag
Selected_anytag(e) == e.rel = Some("alternate")

\* query_selector("link[rel='alternate']")
Selected(e) == e.tag = "link" /\ e.rel = Some("alternate")

RECURSIVE feed_urls(_, _)
feed_urls(dom, url) ==
    IF dom = <<>> THEN <<>>
    ELSE LET e == Head(dom)
             rest == feed_urls(Tail(dom), url)
         IN  IF Selected(e) /\ IsSome(e.type) /\ is_feed(Get(e.type)) /\ IsSome(e.href)
             THEN LET j == UrlJoin(url, Get(e.href))
                  IN  IF IsSome(j) THEN <<Get(j)>> \o rest ELSE rest
             ELSE rest

\* Parser::new: the iterator over the feed urls of the document, or TooLarge
ParserNew(body, url) ==
    IF body.toolarge THEN Err([kind |-> "TooLarge"])
    ELSE Ok(feed_urls(body.dom, url))

----------------------------------------------------------------------------
(* XML documents: roxmltree.  A node is an element: its local tag name, its *)
(* text (the text of its first child when that child is a text node), the   *)
(* attributes the parsers read, and its child elements in document order.   *)

Node(name, text, url, href, kids) ==
    [name |-> name, text |-> text, url |-> url, href |-> href, kids |-> kids]

\* a leaf element with only a text: <name>text</name>
Leaf(name, text) == Node(name, Some(text), None, None, <<>>)
\* an element with neither text nor attributes nor children: <name/>
Empty(name) == Node(name, None, None, None, <<>>)

\* Node::descendants(): the node itself, then its descendants, in document order
RECURSIVE Descendants(_)
RECURSIVE DescendantsOfAll(_)
Descendants(n) == <<n>> \o DescendantsOfAll(n.kids)
DescendantsOfAll(ns) ==
    IF ns = <<>> THEN <<>> ELSE Descendants(Head(ns)) \o DescendantsOfAll(Tail(ns))

\* Iterator::find over a sequence: Some(first element satisfying P), or None
FindFirst(seq, P(_)) ==
    IF \E i \in 1..Len(seq) : P(seq[i])
    THEN Some(seq[CHOOSE i \in 1..Len(seq) : P(seq[i]) /\ \A j \in 1..(i - 1) : ~P(seq[j])])
    ELSE None

\* Iterator::filter over a sequence
Filter(seq, P(_)) == SelectSeq(seq, P)

\* Option::and_then(|t| t.text())
TextOf(nodeopt) == IF IsSome(nodeopt) THEN Get(nodeopt).text ELSE None

\* the first descendant of n with one of the names, and its text
FindNamed(n, names) == FindFirst(Descendants(n), LAMBDA t : t.name \in names)

----------------------------------------------------------------------------
(* feedutils::normalize_and_truncate and slug::slugify *)

RECURSIVE CollapseWhitespace(_, _)
CollapseWhitespace(s, pending) ==
    IF s = <<>> THEN <<>>
    ELSE IF Head(s) \in Whitespace THEN CollapseWhitespace(Tail(s), TRUE)
    ELSE (IF pending THEN <<" ">> ELSE <<>>) \o <<Head(s)>> \o CollapseWhitespace(Tail(s), FALSE)

normalize_and_truncate(s, max) == Take(CollapseWhitespace(TrimStart(s), FALSE), max)

RECURSIVE SlugChars(_, _)
SlugChars(s, pending) ==
    IF s = <<>> THEN <<>>
    ELSE LET c == ToLowerChar(Head(s))
         IN  IF c \in LowerAlnum
             THEN (IF pending THEN <<"-">> ELSE <<>>) \o <<c>> \o SlugChars(Tail(s), FALSE)
             ELSE SlugChars(Tail(s), TRUE)

RECURSIVE DropLeadingNonAlnum(_)
DropLeadingNonAlnum(s) ==
    IF s # <<>> /\ ToLowerChar(Head(s)) \notin LowerAlnum
    THEN DropLeadingNonAlnum(Tail(s)) ELSE s

slugify(s) == SlugChars(DropLeadingNonAlnum(s), FALSE)

----------------------------------------------------------------------------
(* The feed-level parser *)

TitleMax == 256

\* roxmltree::Document::parse: the tree of a well-formed document, or an error
DocumentParse(xml) == IF IsSome(xml) THEN Ok(Get(xml)) ELSE Err([kind |-> "MalformedDocument"])

FeedTitle(feed_tag) ==
    LET t == TextOf(FindNamed(feed_tag, {"title"}))
    IN  IF IsSome(t) THEN normalize_and_truncate(Get(t), TitleMax) ELSE <<>>

FeedDescription(feed_tag, title) ==
    UnwrapOr(TextOf(FindNamed(feed_tag, {"description", "subtitle"})), title)

\* (mutant) the first link node that has a text or an href is used
FeedUrl_anylink(feed_tag, feed_url) ==
    LET t == FindFirst(Descendants(feed_tag),
                       LAMBDA n : n.name = "link" /\ (IsSome(n.text) \/ IsSome(n.href)))
        v == IF IsNone(t) THEN None
             ELSE IF IsNone(Get(t).text) THEN Get(t).href ELSE Get(t).text
    IN  UnwrapOr(v, feed_url)

FeedUrl(feed_tag, feed_url) ==
    LET t == FindNamed(feed_tag, {"link"})
        v == IF IsNone(t) THEN None
             ELSE IF IsNone(Get(t).text) THEN Get(t).href ELSE Get(t).text
    IN  UnwrapOr(v, feed_url)

\* (mutant) the first name node that has a text is used
FeedAuthor_anyname(feed_tag, title) ==
    LET author_tag == FindNamed(feed_tag, {"author"})
    IN  IF IsSome(author_tag)
        THEN LET nametag == FindFirst(Descendants(Get(author_tag)),
                                      LAMBDA t : t.name = "name" /\ IsSome(t.text))
             IN  IF IsSome(nametag) THEN Get(Get(nametag).text)
                 ELSE IF IsSome(Get(author_tag).text) THEN Get(Get(author_tag).text)
                 ELSE title
        ELSE title

FeedAuthor(feed_tag, title) ==
    LET author_tag == FindNamed(feed_tag, {"author"})
    IN  IF IsSome(author_tag)
        THEN LET nametag == TextOf(FindNamed(Get(author_tag), {"name"}))
             IN  IF IsSome(nametag) THEN Get(nametag)
                 ELSE IF IsSome(Get(author_tag).text) THEN Get(Get(author_tag).text)
                 ELSE title
        ELSE title

\* parse(doc, feed_url), for the xml view of a body
parse(xml, feed_url) ==
    LET d == DocumentParse(xml)
    IN  IF ~d.ok THEN d
        ELSE LET feed_tag == d.val
                 title == FeedTitle(feed_tag)
             IN  Ok([title |-> title,
                     description |-> FeedDescription(feed_tag, title),
                     url |-> FeedUrl(feed_tag, feed_url),
                     feed_url |-> feed_url,
                     author |-> FeedAuthor(feed_tag, title),
                     slug |-> slugify(title)])

----------------------------------------------------------------------------
(* The date normalizer: parse_date over chrono.  An instant is a number of  *)
(* seconds since 1970-01-01T00:00:00Z.                                      *)

IsDigit(c) == c \in DigitSet
DigitVal(c) == (CHOOSE i \in 1..10 : Digits[i] = c) - 1
AllDigits(s) == s # <<>> /\ \A i \in 1..Len(s) : IsDigit(s[i])

RECURSIVE NumVal(_)
NumVal(s) == IF s = <<>> THEN 0 ELSE NumVal(SubSeq(s, 1, Len(s) - 1)) * 10 + DigitVal(s[Len(s)])

\* a numeric field of lo to hi digits
IsNum(s, lo, hi) == Len(s) >= lo /\ Len(s) <= hi /\ AllDigits(s)

\* str::split(c): the pieces of s between occurrences of the character c
RECURSIVE SplitOn(_, _)
SplitOn(s, c) ==
    LET i == Find(s, c)
    IN  IF i = 0 THEN <<s>> ELSE <<SubSeq(s, 1, i - 1)>> \o SplitOn(SubSeq(s, i + 1, Len(s)), c)

\* str::split_whitespace
RECURSIVE SplitWhitespace(_)
SplitWhitespace(s) ==
    LET t == TrimStart(s)
        e == IF \E i \in 1..Len(t) : t[i] \in Whitespace
             THEN CHOOSE i \in 1..Len(t) :
                    t[i] \in Whitespace /\ \A j \in 1..(i - 1) : t[j] \notin Whitespace
             ELSE Len(t) + 1
    IN  IF t = <<>> THEN <<>>
        ELSE <<SubSeq(t, 1, e - 1)>> \o SplitWhitespace(SubSeq(t, e, Len(t)))

RECURSIVE JoinWith(_, _)
JoinWith(parts, sep) ==
    IF parts = <<>> THEN <<>>
    ELSE IF Len(parts) = 1 THEN parts[1]
    ELSE parts[1] \o sep \o JoinWith(Tail(parts), sep)

IsLeap(y) == (y % 4 = 0 /\ y % 100 # 0) \/ y % 400 = 0
DaysInMonth(y, m) ==
    IF m = 2 THEN (IF IsLeap(y) THEN 29 ELSE 28)
    ELSE IF m \in {4, 6, 9, 11} THEN 30 ELSE 31

\* days from 1970-01-01 to the civil date y-m-d
DaysFromCivil(y, m, d) ==
    LET yy == IF m <= 2 THEN y - 1 ELSE y
        era == yy \div 400
        yoe == yy - era * 400
        mp == IF m > 2 THEN m - 3 ELSE m + 9
        doy == (153 * mp + 2) \div 5 + d - 1
        doe == yoe * 365 + yoe \div 4 - yoe \div 100 + doy
    IN  era * 146097 + doe - 719468

ValidDate(y, m, d) == m >= 1 /\ m <= 12 /\ d >= 1 /\ d <= DaysInMonth(y, m)
ValidTime(h, mi, sec) == h <= 23 /\ mi <= 59 /\ sec <= 59

\* the instant of a civil date and time at an offset of off seconds east of UTC
Instant(y, m, d, h, mi, sec, off) ==
    DaysFromCivil(y, m, d) * 86400 + h * 3600 + mi * 60 + sec - off

MonthsShort == << <<"j","a","n">>, <<"f","e","b">>, <<"m","a","r">>, <<"a","p","r">>,
                 <<"m","a","y">>, <<"j","u","n">>, <<"j","u","l">>, <<"a","u","g">>,
                 <<"s","e","p">>, <<"o","c","t">>, <<"n","o","v">>, <<"d","e","c">> >>
MonthsLongRest == << <<"u","a","r","y">>, <<"r","u","a","r","y">>, <<"c","h">>, <<"i","l">>,
                    <<>>, <<"e">>, <<"y">>, <<"u","s","t">>,
                    <<"t","e","m","b","e","r">>, <<"o","b","e","r">>,
                    <<"e","m","b","e","r">>, <<"e","m","b","e","r">> >>
WeekdaysShort == << <<"m","o","n">>, <<"t","u","e">>, <<"w","e","d">>, <<"t","h","u">>,
                   <<"f","r","i">>, <<"s","a","t">>, <<"s","u","n">> >>

\* the month a three-letter name means, 0 when it is no month name
ShortMonth(s) ==
    LET l == to_lowercase(s)
    IN  IF \E i \in 1..12 : MonthsShort[i] = l
        THEN CHOOSE i \in 1..12 : MonthsShort[i] = l ELSE 0

\* %B: the month a short or a full name means, 0 when it is no month name
LongMonth(s) ==
    LET l == to_lowercase(s)
    IN  IF \E i \in 1..12 : l = MonthsShort[i] \/ l = MonthsShort[i] \o MonthsLongRest[i]
        THEN CHOOSE i \in 1..12 : l = MonthsShort[i] \/ l = MonthsShort[i] \o MonthsLongRest[i]
        ELSE 0

\* Monday is 1; 1970-01-01 was a Thursday
WeekdayOf(y, m, d) == ((DaysFromCivil(y, m, d) + 3) % 7) + 1
ShortWeekday(s) ==
    LET l == to_lowercase(s)
    IN  IF \E i \in 1..7 : WeekdaysShort[i] = l
        THEN CHOOSE i \in 1..7 : WeekdaysShort[i] = l ELSE 0

\* a date "Y-M-D": Some(<<y, m, d>>) or None
DateFields(s) ==
    LET p == SplitOn(s, "-")
    IN  IF Len(p) = 3 /\ IsNum(p[1], 4, 4) /\ IsNum(p[2], 1, 2) /\ IsNum(p[3], 1, 2)
           /\ ValidDate(NumVal(p[1]), NumVal(p[2]), NumVal(p[3]))
        THEN Some(<<NumVal(p[1]), NumVal(p[2]), NumVal(p[3])>>) ELSE None

\* a time "H:M:S": Some(<<h, m, s>>) or None
TimeFields(s) ==
    LET p == SplitOn(s, ":")
    IN  IF Len(p) = 3 /\ IsNum(p[1], 1, 2) /\ IsNum(p[2], 1, 2) /\ IsNum(p[3], 1, 2)
           /\ ValidTime(NumVal(p[1]), NumVal(p[2]), NumVal(p[3]))
        THEN Some(<<NumVal(p[1]), NumVal(p[2]), NumVal(p[3])>>) ELSE None

\* an RFC3339 offset: "Z", "z" or a sign, "HH:MM"; Some(seconds east) or None
Rfc3339Offset(s) ==
    IF s = <<"Z">> \/ s = <<"z">> THEN Some(0)
    ELSE IF Len(s) = 6 /\ s[1] \in {"+", "-"} /\ s[4] = ":"
            /\ AllDigits(SubSeq(s, 2, 3)) /\ AllDigits(SubSeq(s, 5, 6))
            /\ NumVal(SubSeq(s, 5, 6)) <= 59
         THEN LET v == NumVal(SubSeq(s, 2, 3)) * 3600 + NumVal(SubSeq(s, 5, 6)) * 60
              IN  Some(IF s[1] = "-" THEN 0 - v ELSE v)
    ELSE None

\* DateTime::parse_from_rfc3339, then with_timezone(&Utc)
ParseRfc3339(s) ==
    IF Len(s) < 20 \/ ~(s[11] \in {"T", "t", " "}) THEN None
    ELSE LET d == DateFields(SubSeq(s, 1, 10))
             t == TimeFields(SubSeq(s, 12, 19))
             o == Rfc3339Offset(SubSeq(s, 20, Len(s)))
         IN  IF Len(SubSeq(s, 1, 10)) = 10 /\ IsSome(d) /\ IsSome(t) /\ IsSome(o)
                /\ s[5] = "-" /\ s[8] = "-" /\ s[14] = ":" /\ s[17] = ":"
             THEN Some(Instant(Get(d)[1], Get(d)[2], Get(d)[3],
                               Get(t)[1], Get(t)[2], Get(t)[3], Get(o)))
             ELSE None

\* an RFC2822 zone: a sign and "HHMM", or UT, GMT, Z; Some(seconds east) or None
Rfc2822Offset(s) ==
    IF to_lowercase(s) \in {<<"g","m","t">>, <<"u","t">>, <<"z">>} THEN Some(0)
    ELSE IF Len(s) = 5 /\ s[1] \in {"+", "-"} /\ AllDigits(SubSeq(s, 2, 5))
            /\ NumVal(SubSeq(s, 4, 5)) <= 59
         THEN LET v == NumVal(SubSeq(s, 2, 3)) * 3600 + NumVal(SubSeq(s, 4, 5)) * 60
              IN  Some(IF s[1] = "-" THEN 0 - v ELSE v)
    ELSE None

\* DateTime::parse_from_rfc2822, then with_timezone(&Utc):
\* "[Www,] D Mon YYYY HH:MM:SS zone"; a weekday that is not the date's is refused
ParseRfc2822(s) ==
    LET parts == SplitWhitespace(s)
        hasday == parts # <<>> /\ Len(parts[1]) = 4 /\ parts[1][4] = ","
        p == IF hasday THEN Tail(parts) ELSE parts
    IN  IF Len(p) # 5 THEN None
        ELSE IF ~(IsNum(p[1], 1, 2) /\ Len(p[2]) = 3 /\ ShortMonth(p[2]) # 0
                  /\ IsNum(p[3], 4, 4) /\ IsSome(TimeFields(p[4]))
                  /\ IsSome(Rfc2822Offset(p[5])))
        THEN None
        ELSE LET y == NumVal(p[3])
                 m == ShortMonth(p[2])
                 d == NumVal(p[1])
                 t == Get(TimeFields(p[4]))
             IN  IF ~ValidDate(y, m, d) THEN None
                 ELSE IF hasday /\ ShortWeekday(SubSeq(parts[1], 1, 3)) # WeekdayOf(y, m, d)
                 THEN None
                 ELSE Some(Instant(y, m, d, t[1], t[2], t[3], Get(Rfc2822Offset(p[5]))))

\* NaiveDateTime::parse_from_str(s, "%Y-%m-%d %H:%M:%S"), taken as UTC
ParseNaiveDateTime(s) ==
    LET parts == SplitWhitespace(s)
    IN  IF Len(parts) # 2 \/ s[1] \in Whitespace \/ s[Len(s)] \in Whitespace THEN None
        ELSE LET d == DateFields(parts[1])
                 t == TimeFields(parts[2])
             IN  IF IsSome(d) /\ IsSome(t)
                 THEN Some(Instant(Get(d)[1], Get(d)[2], Get(d)[3],
                                   Get(t)[1], Get(t)[2], Get(t)[3], 0))
                 ELSE None

\* parts[1..5].join(" ") parsed with "%d %B %Y %H:%M:%S", taken as UTC
ParseCleaned(s) ==
    LET parts == SplitWhitespace(s)
    IN  IF Len(parts) < 5 THEN None
        ELSE LET clean == SubSeq(parts, 2, 5)
             IN  IF IsNum(clean[1], 1, 2) /\ LongMonth(clean[2]) # 0 /\ IsNum(clean[3], 4, 4)
                    /\ IsSome(TimeFields(clean[4]))
                    /\ ValidDate(NumVal(clean[3]), LongMonth(clean[2]), NumVal(clean[1]))
                 THEN LET t == Get(TimeFields(clean[4]))
                      IN  Some(Instant(NumVal(clean[3]), LongMonth(clean[2]), NumVal(clean[1]),
                                       t[1], t[2], t[3], 0))
                 ELSE None

\* NaiveDate::parse_from_str(s, "%Y-%m-%d"), at midnight UTC
ParseNaiveDate(s) ==
    LET d == DateFields(s)
    IN  IF IsSome(d) THEN Some(Instant(Get(d)[1], Get(d)[2], Get(d)[3], 0, 0, 0, 0)) ELSE None

\* (mutant) the cleaned date is tried before RFC2822
DateAttempts_cleanedfirst(s) ==
    <<ParseRfc3339(s), ParseCleaned(s), ParseRfc2822(s), ParseNaiveDateTime(s), ParseNaiveDate(s)>>

\* the five attempts of parse_date, in the order the code makes them
DateAttempts(s) ==
    <<ParseRfc3339(s), ParseRfc2822(s), ParseNaiveDateTime(s), ParseCleaned(s), ParseNaiveDate(s)>>

parse_date(date_str) ==
    LET first == FindFirst(DateAttempts(date_str), IsSome)
    IN  IF IsSome(first) THEN Ok(Get(Get(first)))
        ELSE Err([kind |-> "DateNormalizationFailure", text |-> date_str])

----------------------------------------------------------------------------
(* Content and description: html2md's parse_html and strip_markdown_tags.   *)
(* In a content text an HTML tag or entity is one element of the sequence.  *)

\* the backtick character, written out as a word
Backtick == "backtick"

\* what the converter writes for one element of the HTML text
ConvertToken(c) ==
    CASE c \in {"<b>", "</b>", "<strong>", "</strong>"} -> <<"*", "*">>
      [] c \in {"<i>", "</i>", "<em>", "</em>"} -> <<"*">>
      [] c \in {"<code>", "</code>"} -> <<Backtick>>
      [] c = "<p>" -> <<>>
      [] c = "</p>" -> <<"\n", "\n">>
      [] c = "<br>" -> <<"\n">>
      [] c = "<h1>" -> <<"#", " ">>
      [] c = "</h1>" -> <<"\n">>
      [] c = "&amp;" -> <<"&">>
      [] OTHER -> <<c>>

\* the conversion of the elements lo..hi of the HTML text, one after another
RECURSIVE ConvertRange(_, _, _)
ConvertRange(s, lo, hi) ==
    IF lo > hi THEN <<>>
    ELSE IF lo = hi THEN ConvertToken(s[lo])
    ELSE LET mid == (lo + hi) \div 2
         IN  ConvertRange(s, lo, mid) \o ConvertRange(s, mid + 1, hi)

ConvertTokens(s) == ConvertRange(s, 1, Len(s))

\* str::trim_end
TrimEnd(s) ==
    IF \A i \in 1..Len(s) : s[i] \in Whitespace THEN <<>>
    ELSE SubSeq(s, 1, CHOOSE i \in 1..Len(s) :
                         /\ s[i] \notin Whitespace
                         /\ \A j \in (i + 1)..Len(s) : s[j] \in Whitespace)

\* html2md::parse_html: the tags become markdown, the result is trimmed
parse_html(text) == TrimEnd(TrimStart(ConvertTokens(text)))

\* index of the first place in s where the text d starts, 0 when there is none
FindSeq(s, d) ==
    IF \E i \in 1..(Len(s) - Len(d) + 1) : SubSeq(s, i, i + Len(d) - 1) = d
    THEN CHOOSE i \in 1..(Len(s) - Len(d) + 1) :
            /\ SubSeq(s, i, i + Len(d) - 1) = d
            /\ \A j \in 1..(i - 1) : SubSeq(s, j, j + Len(d) - 1) # d
    ELSE 0

\* (.*?) up to the next d: the index in s where that d starts, 0 when a
\* newline comes first or there is no d
LazyUpTo(s, d) ==
    LET j == FindSeq(s, d)
    IN  IF j # 0 /\ \A i \in 1..(j - 1) : s[i] # "\n" THEN j ELSE 0

\* the text s from its element i on
From(s, i) == SubSeq(s, i, Len(s))

\* where in s, at element i, open(.*?)close matches: the index in From(s, i)
\* after open where close starts, 0 when there is no match at i
PairAt(s, i, open, close) ==
    IF StartsWith(From(s, i), open)
    THEN LazyUpTo(From(s, i + Len(open)), close)
    ELSE 0

\* the least element of a set of numbers that is not empty
Least(S) == CHOOSE i \in S : \A h \in S : i <= h

\* replace_all of open(.*?)close by $1: the leftmost match is replaced, the
\* scan goes on after it
RECURSIVE StripPair(_, _, _)
StripPair(s, open, close) ==
    LET m == [i \in 1..Len(s) |-> PairAt(s, i, open, close)]
        hits == {i \in 1..Len(s) : m[i] # 0}
    IN  IF hits = {} THEN s
        ELSE LET i == Least(hits)
                 rest == From(s, i + Len(open))
             IN  SubSeq(s, 1, i - 1) \o SubSeq(rest, 1, m[i] - 1)
                   \o StripPair(From(rest, m[i] + Len(close)), open, close)

\* where in s, at element i, open(.*?)mid.*?close matches: <<j, k>>, the
\* index after open where mid starts and the index after mid where close
\* starts; <<0, 0>> when there is no match at i
LinkAt(s, i, open, mid, close) ==
    LET j == PairAt(s, i, open, mid)
        k == IF j # 0 THEN LazyUpTo(From(s, i + Len(open) + j - 1 + Len(mid)), close) ELSE 0
    IN  IF k # 0 THEN <<j, k>> ELSE <<0, 0>>

\* replace_all of open(.*?)mid.*?close by $1
RECURSIVE StripLink(_, _, _, _)
StripLink(s, open, mid, close) ==
    LET m == [i \in 1..Len(s) |-> LinkAt(s, i, open, mid, close)]
        hits == {i \in 1..Len(s) : m[i][1] # 0}
    IN  IF hits = {} THEN s
        ELSE LET i == Least(hits)
                 rest == From(s, i + Len(open))
                 after == From(rest, m[i][1] + Len(mid))
             IN  SubSeq(s, 1, i - 1) \o SubSeq(rest, 1, m[i][1] - 1)
                   \o StripLink(From(after, m[i][2] + Len(close)), open, mid, close)

RegexSpace == {" ", "\n", "\t", "\r"}

\* replace_all of c+\s* by the empty text
RECURSIVE StripMarker(_, _)
StripMarker(s, c) ==
    LET hits == {i \in 1..Len(s) : s[i] = c}
    IN  IF hits = {} THEN s
        ELSE LET i == Least(hits)
                 n == Least({k \in i..(Len(s) + 1) : k > Len(s) \/ s[k] # c})
                 e == Least({k \in n..(Len(s) + 1) : k > Len(s) \/ s[k] \notin RegexSpace})
             IN  SubSeq(s, 1, i - 1) \o StripMarker(From(s, e), c)

RuleChars == {"-", "*", "_", "="}

\* replace_all of [-*_=]{3,} by the empty text
RECURSIVE StripRules(_)
StripRules(s) ==
    LET hits == {i \in 1..(Len(s) - 2) :
                    s[i] \in RuleChars /\ s[i + 1] \in RuleChars /\ s[i + 2] \in RuleChars}
    IN  IF hits = {} THEN s
        ELSE LET i == Least(hits)
                 e == Least({k \in i..(Len(s) + 1) : k > Len(s) \/ s[k] \notin RuleChars})
             IN  SubSeq(s, 1, i - 1) \o StripRules(From(s, e))

Fence == <<Backtick, Backtick, Backtick>>

\* replace_all of three backticks, .*?, three backticks by the empty text
RECURSIVE StripFences(_)
StripFences(s) ==
    LET m == [i \in 1..Len(s) |-> PairAt(s, i, Fence, Fence)]
        hits == {i \in 1..Len(s) : m[i] # 0}
    IN  IF hits = {} THEN s
        ELSE SubSeq(s, 1, Least(hits) - 1)
               \o StripFences(From(s, Least(hits) + 3 + m[Least(hits)] - 1 + 3))

\* the patterns array, in its order
Patterns ==
    << [kind |-> "pair", open |-> <<"*", "*">>, close |-> <<"*", "*">>],
       [kind |-> "pair", open |-> <<"*">>, close |-> <<"*">>],
       [kind |-> "pair", open |-> <<Backtick>>, close |-> <<Backtick>>],
       [kind |-> "pair", open |-> <<"~", "~">>, close |-> <<"~", "~">>],
       [kind |-> "marker", c |-> "#"],
       [kind |-> "link", open |-> <<"!", "[">>, mid |-> <<"]", "(">>, close |-> <<")">>],
       [kind |-> "link", open |-> <<"[">>, mid |-> <<"]", "(">>, close |-> <<")">>],
       [kind |-> "marker", c |-> ">"],
       [kind |-> "rules"],
       [kind |-> "fences"] >>

\* re.replace_all(&result, "$1") for one pattern
replace_all(pat, s) ==
    CASE pat.kind = "pair" -> StripPair(s, pat.open, pat.close)
      [] pat.kind = "link" -> StripLink(s, pat.open, pat.mid, pat.close)
      [] pat.kind = "marker" -> StripMarker(s, pat.c)
      [] pat.kind = "rules" -> StripRules(s)
      [] pat.kind = "fences" -> StripFences(s)

\* the loop over the patterns from the k-th on
RECURSIVE ApplyPatterns(_, _)
ApplyPatterns(result, k) ==
    IF k > Len(Patterns) THEN result
    ELSE ApplyPatterns(replace_all(Patterns[k], result), k + 1)

strip_markdown_tags(input) == ApplyPatterns(input, 1)

\* str::replace("\n", "")
RemoveNewlines(s) == SelectSeq(s, LAMBDA c : c # "\n")

DescriptionMax == 280

\* (mutant) the description is derived from the content whenever there is one
get_description_content_contentfirst(entry) ==
    LET content == TextOf(FindNamed(entry, {"content", "encoded"}))
        description == TextOf(FindNamed(entry, {"description", "summary"}))
        content_text ==
            IF IsSome(content) THEN parse_html(Get(content))
            ELSE IF IsSome(description) THEN parse_html(Get(description))
            ELSE <<>>
        description_text == Take(RemoveNewlines(content_text), DescriptionMax)
    IN  <<strip_markdown_tags(description_text), content_text>>

\* (mutant) on the path from the content the newlines stay
get_description_content_keepnewlines(entry) ==
    LET content == TextOf(FindNamed(entry, {"content", "encoded"}))
        description == TextOf(FindNamed(entry, {"description", "summary"}))
        content_text ==
            IF IsSome(content) THEN parse_html(Get(content))
            ELSE IF IsSome(description) THEN parse_html(Get(description))
            ELSE <<>>
        description_text ==
            IF IsSome(description)
            THEN Take(RemoveNewlines(parse_html(Get(description))), DescriptionMax)
            ELSE Take(content_text, DescriptionMax)
    IN  <<strip_markdown_tags(description_text), content_text>>

\* get_description_content(entry): <<description, content>>
get_description_content(entry) ==
    LET content == TextOf(FindNamed(entry, {"content", "encoded"}))
        description == TextOf(FindNamed(entry, {"description", "summary"}))
        content_text ==
            IF IsSome(content) THEN parse_html(Get(content))
            ELSE IF IsSome(description) THEN parse_html(Get(description))
            ELSE <<>>
        description_text ==
            IF IsSome(description)
            THEN Take(RemoveNewlines(parse_html(Get(description))), DescriptionMax)
            ELSE Take(RemoveNewlines(content_text), DescriptionMax)
    IN  <<strip_markdown_tags(description_text), content_text>>

----------------------------------------------------------------------------
(* The entry-level parser: get_feed_entries_doc *)

T_placeholder == <<"1", "9", "9", "0", "-", "0", "9", "-", "1", "9">>
T_NOURL == <<"N", "O", "U", "R", "L">>

\* DateTime::<Utc>::default(), what unwrap_or_default() gives: the epoch
DefaultInstant == 0

\* (mutant) only item nodes are entries
IsEntry_itemonly(t) == t.name = "item"

\* the filter of the loop: a node named item or entry
IsEntry(t) == t.name = "item" \/ t.name = "entry"

\* (mutant) published is looked for first, then the other names
EntryDateText_priority(entry) ==
    LET p == FindNamed(entry, {"published"})
    IN  IF IsSome(p) THEN UnwrapOr(TextOf(p), T_placeholder)
        ELSE UnwrapOr(TextOf(FindNamed(entry, {"updated", "date", "pubDate"})), T_placeholder)

\* datestr
EntryDateText(entry) ==
    UnwrapOr(TextOf(FindNamed(entry, {"published", "updated", "date", "pubDate"})),
             T_placeholder)

\* (mutant) the first name node that has a text is used
EntryAuthor_anyname(entry, default) ==
    LET author_tag == FindNamed(entry, {"author", "creator"})
    IN  IF IsSome(author_tag)
        THEN LET nametag == FindFirst(Descendants(Get(author_tag)),
                                      LAMBDA t : t.name = "name" /\ IsSome(t.text))
             IN  IF IsSome(nametag) THEN Get(Get(nametag).text)
                 ELSE IF IsSome(Get(author_tag).text) THEN Get(Get(author_tag).text)
                 ELSE default
        ELSE default

\* entryauthor
EntryAuthor(entry, default) ==
    LET author_tag == FindNamed(entry, {"author", "creator"})
    IN  IF IsSome(author_tag)
        THEN LET nametag == TextOf(FindNamed(Get(author_tag), {"name"}))
             IN  IF IsSome(nametag) THEN Get(nametag)
                 ELSE IF IsSome(Get(author_tag).text) THEN Get(Get(author_tag).text)
                 ELSE default
        ELSE default

\* (mutant) an id is accepted whatever its text
IsEntryUrlNode_anyid(t) ==
    \/ t.name = "id" /\ IsSome(t.text)
    \/ t.name = "enclosure" /\ IsSome(t.url) /\ IsHttpUrl(Get(t.url))
    \/ t.name = "link"

\* the predicate of the url scan
IsEntryUrlNode(t) ==
    \/ t.name = "id" /\ IsSome(t.text) /\ IsHttpUrl(Get(t.text))
    \/ t.name = "enclosure" /\ IsSome(t.url) /\ IsHttpUrl(Get(t.url))
    \/ t.name = "link"

\* what the found node gives: its text, else its url attribute, else its href
EntryUrlValue(t) ==
    IF IsNone(t.text)
    THEN (IF IsSome(t.url) THEN t.url ELSE t.href)
    ELSE t.text

\* entryurl
EntryUrl(entry) ==
    LET t == FindFirst(Descendants(entry), IsEntryUrlNode)
    IN  UnwrapOr(IF IsSome(t) THEN EntryUrlValue(Get(t)) ELSE None, T_NOURL)

EntryTitle(entry) ==
    LET t == TextOf(FindNamed(entry, {"title"}))
    IN  IF IsSome(t) THEN normalize_and_truncate(Get(t), TitleMax) ELSE <<>>

\* parse_date(&datestr).map_err(..).unwrap_or_default()
EntryDate(datestr) ==
    LET r == parse_date(datestr)
    IN  IF r.ok THEN r.val ELSE DefaultInstant

\* the FeedEntry made of one item or entry node (lastupdated, the clock's
\* reading, is left out)
FeedEntryOf(entry, default) ==
    LET dc == get_description_content(entry)
    IN  [title |-> EntryTitle(entry),
         author |-> EntryAuthor(entry, default),
         url |-> EntryUrl(entry),
         text |-> dc[2],
         date |-> EntryDate(EntryDateText(entry)),
         description |-> dc[1],
         seen |-> FALSE]

\* (mutant) an entry whose date does not normalize is dropped
get_feed_entries_doc_dropping(xml, default) ==
    LET d == DocumentParse(xml)
    IN  IF ~d.ok THEN d
        ELSE LET entries == Filter(Descendants(d.val),
                                   LAMBDA t : IsEntry(t) /\ parse_date(EntryDateText(t)).ok)
             IN  Ok([i \in 1..Len(entries) |-> FeedEntryOf(entries[i], default)])

get_feed_entries_doc(xml, default) ==
    LET d == DocumentParse(xml)
    IN  IF ~d.ok THEN d
        ELSE LET entries == Filter(Descendants(d.val), IsEntry)
             IN  Ok([i \in 1..Len(entries) |-> FeedEntryOf(entries[i], default)])

----------------------------------------------------------------------------
(* The transport collaborator and the documents it serves *)

MaxLinks == 4   \* link elements in all the pages of the web together
MaxDepth == 4   \* nested get_feed_with_data calls the model follows

U1 == <<"h", "t", "t", "p", ":", "/", "/", "h", "/">>
U2 == <<"h", "t", "t", "p", ":", "/", "/", "h", "/", "a">>
U3 == <<"h", "t", "t", "p", ":", "/", "/", "h", "/", "b">>
Urls == {U1, U2, U3}

T_xml == <<"<", "?", "x", "m", "l">>
T_rsstype == <<"R", "S", "S">>
T_Al == <<"A", "l">>
T_News == <<"N", "e", "w", "s">>

\* A body is one text seen three ways: its leading characters (what is_html
\* reads), the elements tl::parse finds in it, and the tree roxmltree finds in
\* it (None when it is not well-formed XML); toolarge: longer than u32::MAX.
Body(text, dom, xml, toolarge) ==
    [text |-> text, dom |-> dom, xml |-> xml, toolarge |-> toolarge]

LinkTo(u) == Element("link", Some("alternate"), Some(T_rsstype), Some(u))

HtmlBody(links) ==
    Body(<<"\n">> \o T_DOCTYPE_HTML, [i \in 1..Len(links) |-> LinkTo(links[i])], None, FALSE)
HugeHtml == Body(T_html, <<>>, None, TRUE)
FeedDoc ==
    Node("rss", None, None, None,
         <<Leaf("title", T_News), Leaf("link", U1), Leaf("author", T_Al),
           Node("item", None, None, None, <<Leaf("title", T_News), Leaf("link", U2)>>)>>)
FeedBody == Body(T_xml, <<>>, Some(FeedDoc), FALSE)
BadXml == Body(T_xml, <<>>, None, FALSE)

\* What a GET answers: send() fails, or a status with a body whose text()
\* succeeds (Some) or fails (None).
TransportError == [send |-> "err", status |-> 0, body |-> None]
Response(status, body) == [send |-> "ok", status |-> status, body |-> body]

\* (mutant) every status from 200 up counts as a success
is_success_from200(status) == status >= 200

\* StatusCode::is_success
is_success(status) == status >= 200 /\ status < 300

PlainResponses ==
    { TransportError,
      Response(200, None),
      Response(200, Some(FeedBody)),
      Response(200, Some(BadXml)),
      Response(200, Some(HugeHtml)),
      Response(404, Some(FeedBody)) }

Responses ==
    PlainResponses \cup
    {Response(200, Some(HtmlBody(l))) : l \in UNION {[1..n -> Urls] : n \in 0..MaxLinks}}

LinkCount(r) == IF IsSome(r.body) THEN Len(Get(r.body).dom) ELSE 0

\* the responses whose body holds exactly n link elements
ResponsesWith(n) == {r \in Responses : LinkCount(r) = n}

\* the urls the link elements of the page at u name
LinkedFrom(w, u) ==
    IF IsSome(w[u].body) THEN {Get(e.href) : e \in Range(Get(w[u].body).dom)} ELSE {}

RECURSIVE ReachableFrom(_, _, _)
ReachableFrom(w, S, n) ==
    IF n = 0 THEN S
    ELSE ReachableFrom(w, S \cup UNION {LinkedFrom(w, u) : u \in S}, n - 1)

\* how many link elements each page holds: at most MaxLinks together
LinkProfiles == {c \in [1..3 -> 0..MaxLinks] : c[1] + c[2] + c[3] <= MaxLinks}

WebOf(r1, r2, r3) == [u \in Urls |-> IF u = U1 THEN r1 ELSE IF u = U2 THEN r2 ELSE r3]

\* A page no link leads to from the first url is never fetched: it is left
\* unreachable, so that two webs never differ only in such a page.
Trimmed(w) ==
    \A u \in Urls \ ReachableFrom(w, {U1}, Cardinality(Urls)) : w[u] = TransportError

----------------------------------------------------------------------------
(* get_feed_with_data as a machine: one frame per call in progress *)

\* (mutant) one candidate more is taken
TakeLimit_four == 3 + 1

\* Iterator::take(3)
TakeLimit == 3

Frame(url) ==
    [url |-> url, pc |-> "fetch", cands |-> <<>>, taken |-> 0,
     all |-> None, tried |-> <<>>, did |-> {}]

Top == stack[Len(stack)]
Running == stack # <<>> /\ IsNone(ret)

Pop == SubSeq(stack, 1, Len(stack) - 1)
SetTop(f) == [stack EXCEPT ![Len(stack)] = f]

\* the call on top returns r
Return(f, r) ==
    /\ stack' = Pop
    /\ ret' = Some(r)
    /\ last' = Some([url |-> f.url, result |-> r, did |-> f.did,
                     all |-> f.all, tried |-> f.tried])

EntryVarsUnchanged == UNCHANGED <<efeed, eret, doc, defaultauthor, out>>

\* client.get(url).send()? fails
SendFails ==
    /\ Running /\ Top.pc = "fetch"
    /\ web[Top.url].send = "err"
    /\ Return([Top EXCEPT !.did = {"send"}], Err([kind |-> "Transport", url |-> Top.url]))
    /\ UNCHANGED <<web, root>> /\ EntryVarsUnchanged

\* the response has a status outside 2xx
StatusFails ==
    /\ Running /\ Top.pc = "fetch"
    /\ web[Top.url].send = "ok"
    /\ ~is_success(web[Top.url].status)
    /\ Return([Top EXCEPT !.did = {"send"}],
              Err([kind |-> "Status", url |-> Top.url, status |-> web[Top.url].status]))
    /\ UNCHANGED <<web, root>> /\ EntryVarsUnchanged

\* response.text()? fails
TextFails ==
    /\ Running /\ Top.pc = "fetch"
    /\ web[Top.url].send = "ok"
    /\ is_success(web[Top.url].status)
    /\ IsNone(web[Top.url].body)
    /\ Return([Top EXCEPT !.did = {"send", "text"}], Err([kind |-> "Body", url |-> Top.url]))
    /\ UNCHANGED <<web, root>> /\ EntryVarsUnchanged

\* the body sniffs as HTML: Parser::new, which fails or starts the iteration
FetchHtml ==
    /\ Running /\ Top.pc = "fetch"
    /\ web[Top.url].send = "ok"
    /\ is_success(web[Top.url].status)
    /\ IsSome(web[Top.url].body)
    /\ LET body == Get(web[Top.url].body)
           parser == ParserNew(body, Top.url)
           did == {"send", "text", "sniff", "discover"}
       IN  /\ is_html(body.text)
           /\ IF parser.ok
              THEN /\ stack' = SetTop([Top EXCEPT !.pc = "iter", !.cands = parser.val,
                                                  !.all = Some(parser.val), !.did = did])
                   /\ UNCHANGED <<ret, last>>
              ELSE Return([Top EXCEPT !.did = did], Err(parser.err))
    /\ UNCHANGED <<web, root>> /\ EntryVarsUnchanged

\* (mutant) the feed is parsed with the url of the outermost call
FeedResult_rooturl(body, url) ==
    LET feed == parse(body.xml, root)
    IN  IF feed.ok THEN Ok([feed |-> feed.val, body |-> body]) ELSE feed

\* Ok((parse(&body, url)?, body))
FeedResult(body, url) ==
    LET feed == parse(body.xml, url)
    IN  IF feed.ok THEN Ok([feed |-> feed.val, body |-> body]) ELSE feed

\* the body does not sniff as HTML: it is parsed as a feed
FetchFeed ==
    /\ Running /\ Top.pc = "fetch"
    /\ web[Top.url].send = "ok"
    /\ is_success(web[Top.url].status)
    /\ IsSome(web[Top.url].body)
    /\ LET body == Get(web[Top.url].body)
       IN  /\ ~is_html(body.text)
           /\ Return([Top EXCEPT !.did = {"send", "text", "sniff", "parse"}],
                     FeedResult(body, Top.url))
    /\ UNCHANGED <<web, root>> /\ EntryVarsUnchanged

\* (mutant) a candidate already being resolved is skipped as a failure
TryCandidate_cycleguard ==
    /\ Running /\ Top.pc = "iter"
    /\ Top.taken < TakeLimit
    /\ Top.cands # <<>>
    /\ Len(stack) < MaxDepth
    /\ LET c == Head(Top.cands)
           f == [Top EXCEPT !.cands = Tail(@), !.taken = @ + 1, !.did = @ \cup {"recurse"}]
       IN  IF \E i \in 1..Len(stack) : stack[i].url = c
           THEN stack' = SetTop([f EXCEPT !.tried = Append(@,
                            [url |-> c, result |-> Err([kind |-> "Cycle", url |-> c])])])
           ELSE stack' = Append(SetTop(f), Frame(c))
    /\ UNCHANGED <<web, root, ret, last>> /\ EntryVarsUnchanged

\* parser.take(3).find_map(..) asks for the next candidate and calls
\* get_feed_with_data on it
TryCandidate ==
    /\ Running /\ Top.pc = "iter"
    /\ Top.taken < TakeLimit
    /\ Top.cands # <<>>
    /\ Len(stack) < MaxDepth
    /\ stack' = Append(SetTop([Top EXCEPT !.cands = Tail(@), !.taken = @ + 1,
                                          !.did = @ \cup {"recurse"}]),
                       Frame(Head(Top.cands)))
    /\ UNCHANGED <<web, root, ret, last>> /\ EntryVarsUnchanged

\* the iteration ends without a success: ok_or_else(..) makes the error
NoFeedFound ==
    /\ Running /\ Top.pc = "iter"
    /\ (Top.taken >= TakeLimit \/ Top.cands = <<>>)
    /\ Return(Top, Err([kind |-> "NoEmbeddedFeed", url |-> Top.url]))
    /\ UNCHANGED <<web, root>> /\ EntryVarsUnchanged

\* (mutant) every candidate is resolved before the first success is looked
\* for, as map(..).collect() followed by a search would do
CandidateSucceeds_eager ==
    /\ stack # <<>> /\ IsSome(ret) /\ Get(ret).ok
    /\ LET f == [Top EXCEPT !.tried = Append(@, [url |-> Get(last).url, result |-> Get(ret)])]
       IN  IF Top.cands # <<>> /\ Top.taken < TakeLimit
           THEN stack' = SetTop(f) /\ ret' = None /\ UNCHANGED last
           ELSE Return(f, Get(ret))
    /\ UNCHANGED <<web, root>> /\ EntryVarsUnchanged

\* a candidate's call returned Ok: find_map stops and the call returns it
CandidateSucceeds ==
    /\ stack # <<>> /\ IsSome(ret) /\ Get(ret).ok
    /\ LET c == last
           f == [Top EXCEPT !.tried = Append(@, [url |-> Get(last).url, result |-> Get(ret)])]
       IN  Return(f, Get(ret))
    /\ UNCHANGED <<web, root>> /\ EntryVarsUnchanged

\* (mutant) the candidate's error is propagated, as `?` would do
CandidateFails_propagates ==
    /\ stack # <<>> /\ IsSome(ret) /\ ~Get(ret).ok
    /\ Return([Top EXCEPT !.tried = Append(@, [url |-> Get(last).url, result |-> Get(ret)])],
              Get(ret))
    /\ UNCHANGED <<web, root>> /\ EntryVarsUnchanged

\* a candidate's call returned Err: .ok() drops the error, find_map goes on
CandidateFails ==
    /\ stack # <<>> /\ IsSome(ret) /\ ~Get(ret).ok
    /\ stack' = SetTop([Top EXCEPT !.tried = Append(@, [url |-> Get(last).url,
                                                        result |-> Get(ret)])])
    /\ ret' = None
    /\ UNCHANGED <<web, root, last>> /\ EntryVarsUnchanged

Done == stack = <<>> /\ IsSome(ret)

\* get_feed_entries(feed): the result, and what was done with the response
get_feed_entries(feed) ==
    LET r == web[feed.feed_url]
    IN  IF r.send = "err"
        THEN [result |-> Err([kind |-> "Transport", url |-> feed.feed_url]), did |-> {"send"}]
        ELSE IF ~is_success(r.status)
        THEN [result |-> Err([kind |-> "Status", url |-> feed.feed_url, status |-> r.status]),
              did |-> {"send"}]
        ELSE IF IsNone(r.body)
        THEN [result |-> Err([kind |-> "Body", url |-> feed.feed_url]), did |-> {"send", "text"}]
        ELSE [result |-> get_feed_entries_doc(Get(r.body).xml, feed.author),
              did |-> {"send", "text", "entries"}]

\* the caller asks for the entries of a feed it holds
GetFeedEntries ==
    /\ Done /\ IsNone(efeed)
    /\ \E u \in Urls :
          LET feed == [feed_url |-> u, author |-> T_Al]
          IN  /\ efeed' = Some(feed)
              /\ eret' = Some(get_feed_entries(feed))
    /\ UNCHANGED <<web, root, stack, ret, last, doc, defaultauthor, out>>

Init ==
    /\ \E c \in LinkProfiles :
         \E r1 \in ResponsesWith(c[1]), r2 \in ResponsesWith(c[2]), r3 \in ResponsesWith(c[3]) :
            /\ web = WebOf(r1, r2, r3)
            /\ Trimmed(web)
    /\ root = U1
    /\ stack = <<Frame(root)>>
    /\ ret = None
    /\ last = None
    /\ efeed = None /\ eret = None
    /\ doc = None /\ defaultauthor = <<>> /\ out = None

Next ==
    \/ SendFails
    \/ StatusFails
    \/ TextFails
    \/ FetchHtml
    \/ FetchFeed
    \/ TryCandidate
    \/ NoFeedFound
    \/ CandidateSucceeds
    \/ CandidateFails
    \/ GetFeedEntries

Spec == Init /\ [][Next]_vars

----------------------------------------------------------------------------
(* get_feed_entries_doc on the documents of a bounded family *)

MaxFields == 2   \* the children an entry holds besides its title

T_day == <<"2", "0", "2", "4", "-", "0", "1", "-", "0", "2">>
T_stamp == <<"2", "0", "2", "4", "-", "0", "1", "-", "0", "2", "T",
             "0", "3", ":", "0", "4", ":", "0", "5", "Z">>
T_soon == <<"s", "o", "o", "n">>
T_urn == <<"u", "r", "n", ":", "x">>
T_rel == <<"/", "p">>

Attr(name, url, href) == Node(name, None, url, href, <<>>)
Parent(name, text, kids) == Node(name, text, None, None, kids)

DateChildren ==
    { Leaf("pubDate", T_day), Leaf("date", T_stamp), Leaf("updated", T_soon),
      Empty("published") }

UrlChildren ==
    { Leaf("id", U2), Leaf("id", T_urn),
      Attr("enclosure", Some(U3), None), Attr("enclosure", Some(T_rel), None),
      Attr("link", None, Some(U1)), Attr("link", Some(U3), Some(U1)),
      Leaf("link", T_rel), Empty("link") }

AuthorChildren ==
    { Leaf("author", <<"A">>),
      Parent("author", None, <<Leaf("name", <<"N">>)>>),
      Parent("author", Some(<<" ">>), <<Empty("name"), Leaf("name", <<"M">>)>>),
      Empty("creator"), Leaf("creator", <<"C">>),
      Leaf("name", <<"X">>) }

ContentChildren ==
    { Leaf("encoded", <<"<b>", "x", "</b>">>),
      Parent("content", None, <<Leaf("div", <<"y">>)>>),
      Leaf("content", <<"c">>),
      Leaf("description", <<"d", "<br>", "*", "z", "*">>),
      Empty("summary"), Leaf("summary", <<"s">>) }

\* a text longer than a description, with line breaks in it
LongText == [i \in 1..(DescriptionMax + 20) |-> IF i % 100 = 0 THEN "<br>" ELSE "a"]

\* a text with a link that the 280th character falls into
CutLink == [i \in 1..(DescriptionMax - 2) |-> "a"] \o <<"[", "l", "]", "(", "u", ")">>

\* an emphasis that goes over a line break
BrokenEmphasis == <<"*", "a", "<br>", "b", "*">>

\* a bold word, then more than a description holds
BoldThenLong == <<"<b>", "b", "</b>">> \o [i \in 1..(DescriptionMax + 20) |-> "a"]

LongChildren ==
    { Leaf("description", LongText), Leaf("content", LongText \o <<"*", "b", "*">>),
      Leaf("summary", CutLink), Leaf("description", BrokenEmphasis),
      Leaf("summary", BoldThenLong) }

\* the children of an entry are drawn from one family at a time
FieldFamilies == {DateChildren, UrlChildren, AuthorChildren, ContentChildren, LongChildren}

\* the entry under study: a title, then the drawn children
Entry(name, kids) == Parent(name, None, <<Leaf("title", <<"e">>)>> \o kids)

\* another entry, with a date that does not normalize
OtherEntry ==
    Parent("entry", None,
           <<Leaf("title", <<"o">>), Leaf("updated", T_soon), Attr("link", None, Some(U1)),
             Parent("author", None, <<Leaf("name", <<"O">>)>>), Leaf("summary", <<"s">>)>>)

Contexts == {"alone", "second", "first", "inner", "outer"}

\* the document that holds the entry in one of the contexts
DocumentOf(ctx, kids) ==
    CASE ctx = "alone" ->
           Parent("rss", None,
                  <<Leaf("title", T_News), Leaf("link", U1), Leaf("author", T_Al),
                    Leaf("pubDate", T_stamp), Leaf("description", <<"n">>),
                    Entry("item", kids)>>)
      [] ctx = "second" -> Parent("feed", None, <<OtherEntry, Entry("item", kids)>>)
      [] ctx = "first" -> Parent("feed", None, <<Entry("entry", kids), OtherEntry>>)
      [] ctx = "inner" ->
           Parent("rss", None,
                  <<Parent("item", None, <<Leaf("title", <<"p">>), Entry("entry", kids)>>)>>)
      [] ctx = "outer" -> Parent("rss", None, <<Entry("item", kids \o <<OtherEntry>>)>>)

DefaultAuthors == {T_Al, <<>>}

NoWeb == WebOf(TransportError, TransportError, TransportError)

InitDoc ==
    /\ \/ doc = None
       \/ \E ctx \in Contexts, fields \in FieldFamilies, n \in 0..MaxFields :
             \E kids \in [1..n -> fields] : doc = Some(DocumentOf(ctx, kids))
    /\ defaultauthor \in DefaultAuthors
    /\ out = None
    /\ web = NoWeb /\ root = U1 /\ stack = <<>> /\ ret = None /\ last = None
    /\ efeed = None /\ eret = None

\* get_feed_entries_doc(doctxt, defaultauthor) is called and returns
GetFeedEntriesDoc ==
    /\ IsNone(out)
    /\ out' = Some(get_feed_entries_doc(doc, defaultauthor))
    /\ UNCHANGED <<web, root, stack, ret, last, efeed, eret, doc, defaultauthor>>

NextDoc == GetFeedEntriesDoc

SpecDoc == InitDoc /\ [][NextDoc]_vars

----------------------------------------------------------------------------
(* parse on the feed documents of a bounded family; root holds the feed_url *)
(* parameter and out the FeedItem returned                                  *)

T_spaced == <<" ", "N", " ", " ", "s", "\n">>

\* the title of the feed: none, one without text, one with a text
TitleChoices == {<<>>, <<Empty("title")>>, <<Leaf("title", T_News)>>, <<Leaf("title", T_spaced)>>}

\* an item with a title, an author and a link of its own
FeedItemNode ==
    Parent("item", None,
           <<Leaf("title", <<"i">>), Leaf("author", <<"I">>), Attr("link", None, Some(U1))>>)

FeedChildren ==
    { Leaf("link", U2), Attr("link", None, Some(U3)),
      Node("link", Some(T_rel), None, Some(U3), <<>>), Empty("link"),
      Leaf("author", <<"A">>),
      Parent("author", None, <<Leaf("name", <<"N">>)>>),
      Parent("author", Some(<<" ">>), <<Empty("name"), Leaf("name", <<"M">>)>>),
      Empty("author"), Leaf("creator", <<"C">>), Leaf("name", <<"X">>),
      FeedItemNode }

FeedShapes == {"rss", "atom"}

\* an rss document with the title first, an atom document with the title last
FeedDocumentOf(shape, title, kids) ==
    IF shape = "rss"
    THEN Parent("rss", None, <<Parent("channel", None, title \o kids)>>)
    ELSE Parent("feed", None, kids \o title)

FeedUrls == {U2, U3}

InitFeed ==
    /\ \/ doc = None
       \/ \E shape \in FeedShapes, title \in TitleChoices, n \in 0..MaxFields :
             \E kids \in [1..n -> FeedChildren] : doc = Some(FeedDocumentOf(shape, title, kids))
    /\ root \in FeedUrls
    /\ out = None
    /\ defaultauthor = <<>>
    /\ web = NoWeb /\ stack = <<>> /\ ret = None /\ last = None
    /\ efeed = None /\ eret = None

\* parse(doc, feed_url) is called and returns
ParseFeed ==
    /\ IsNone(out)
    /\ out' = Some(parse(doc, root))
    /\ UNCHANGED <<web, root, stack, ret, last, efeed, eret, doc, defaultauthor>>

NextFeed == ParseFeed

SpecFeed == InitFeed /\ [][NextFeed]_vars

----------------------------------------------------------------------------
(* get_feed_with_data on a page whose body starts with one of a family of   *)
(* texts; the page links to a feed                                          *)

T_doctype_html == <<"<", "!", "d", "o", "c", "t", "y", "p", "e", " ", "h", "t", "m", "l">>
T_DOCTYPE_UPPER == <<"<", "!", "D", "O", "C", "T", "Y", "P", "E", " ", "H", "T", "M", "L">>
T_Html == <<"<", "H", "t", "m", "l">>

SniffLeads == {<<>>, <<" ">>, <<"\n", "\t">>, <<"\r", "\n", " ", " ">>}

SniffHeads ==
    { T_DOCTYPE_HTML, T_doctype_html, T_DOCTYPE_UPPER, Take(T_DOCTYPE_HTML, 13),
      T_html, T_HTML, T_Html, Take(T_html, 4), <<"<", " ", "h", "t", "m", "l">>,
      <<"x">> \o T_html, T_xml, <<>> }

SniffTails == {<<>>, <<">">>}

\* the document a text is the start of, when it is well-formed XML
SniffXml(lead, head) ==
    IF head = T_xml /\ lead = <<>> THEN Some(FeedDoc)
    ELSE IF head = T_html THEN Some(Parent("html", None, <<>>))
    ELSE IF head = T_HTML THEN Some(Parent("HTML", None, <<>>))
    ELSE IF head = T_Html THEN Some(Parent("Html", None, <<>>))
    ELSE None

InitSniff ==
    /\ \E lead \in SniffLeads, head \in SniffHeads, tail \in SniffTails :
          web = WebOf(Response(200, Some(Body(lead \o head \o tail, <<LinkTo(U2)>>,
                                              SniffXml(lead, head), FALSE))),
                      Response(200, Some(FeedBody)), TransportError)
    /\ root = U1
    /\ stack = <<Frame(root)>>
    /\ ret = None
    /\ last = None
    /\ efeed = None /\ eret = None
    /\ doc = None /\ defaultauthor = <<>> /\ out = None

NextSniff ==
    \/ FetchHtml
    \/ FetchFeed
    \/ TryCandidate
    \/ CandidateSucceeds

SpecSniff == InitSniff /\ [][NextSniff]_vars

----------------------------------------------------------------------------
(* html::Parser on the HTML documents of a bounded family; doc holds the    *)
(* document, root the base url and out the Parser                           *)

MaxElements == 2   \* the elements of a document that carry attributes

T_atomtype == <<"a", "p", "p", "l", "i", "c", "a", "t", "i", "o", "n", "/",
                "a", "t", "o", "m", "+", "x", "m", "l">>
T_mixedtype == <<"A", "p", "p", "/", "R", "s", "S", "+", "X", "M", "L">>
T_csstype == <<"t", "e", "x", "t", "/", "c", "s", "s">>
T_nohost == <<"h", "t", "t", "p", ":", "/", "/">>
T_deep == <<"h", "t", "t", "p", ":", "/", "/", "h", "/", "d", "/", "e">>

HtmlElements ==
    { LinkTo(U2),
      Element("link", Some("alternate"), Some(T_atomtype), Some(T_rel)),
      Element("link", Some("alternate"), Some(T_mixedtype), Some(<<"c">>)),
      Element("link", Some("alternate"), Some(T_csstype), Some(U3)),
      Element("link", Some("alternate"), None, Some(U3)),
      Element("link", Some("alternate"), Some(T_rsstype), None),
      Element("link", Some("alternate"), Some(T_rsstype), Some(T_nohost)),
      Element("link", Some("stylesheet"), Some(T_rsstype), Some(U3)),
      Element("link", None, Some(T_rsstype), Some(U3)),
      Element("a", Some("alternate"), Some(T_rsstype), Some(U3)) }

BaseUrls == {U1, T_deep}

InitDiscover ==
    /\ \/ doc = Some(Body(T_html, <<>>, None, TRUE))
       \/ \E n \in 0..MaxElements :
             \E dom \in [1..n -> HtmlElements] : doc = Some(Body(T_html, dom, None, FALSE))
    /\ root \in BaseUrls
    /\ out = None
    /\ defaultauthor = <<>>
    /\ web = NoWeb /\ stack = <<>> /\ ret = None /\ last = None
    /\ efeed = None /\ eret = None

\* Parser::new(input, url): the Parser with its inner iterator, nothing
\* yielded yet; or the error of tl::parse
NewParser ==
    /\ IsNone(out)
    /\ LET p == ParserNew(Get(doc), root)
       IN  out' = Some(IF p.ok
                       THEN Ok([inner_iterator |-> p.val, yielded |-> <<>>, ended |-> FALSE])
                       ELSE p)
    /\ UNCHANGED <<web, root, stack, ret, last, efeed, eret, doc, defaultauthor>>

\* Iterator::next: the next url of the inner iterator, or None at its end
ParserNext ==
    /\ IsSome(out) /\ Get(out).ok /\ ~Get(out).val.ended
    /\ LET it == Get(out).val
       IN  out' = Some(Ok(IF it.inner_iterator = <<>>
                          THEN [it EXCEPT !.ended = TRUE]
                          ELSE [it EXCEPT !.inner_iterator = Tail(it.inner_iterator),
                                          !.yielded = Append(it.yielded,
                                                             Head(it.inner_iterator))]))
    /\ UNCHANGED <<web, root, stack, ret, last, efeed, eret, doc, defaultauthor>>

NextDiscover ==
    \/ NewParser
    \/ ParserNext

SpecDiscover == InitDiscover /\ [][NextDiscover]_vars

----------------------------------------------------------------------------
(* parse_date on the texts of a bounded family; doc holds the text and out  *)
(* what parse_date returned                                                 *)

IsoDates ==
    { <<"2", "0", "2", "4", "-", "0", "1", "-", "0", "1">>,
      <<"2", "0", "2", "4", "-", "0", "2", "-", "2", "9">>,
      <<"2", "0", "2", "3", "-", "0", "2", "-", "2", "9">>,
      <<"2", "0", "2", "3", "-", "1", "1", "-", "2", "0">> }
IsoSeparators == {<<"T">>, <<"t">>, <<" ">>, <<"_">>}
IsoTimes ==
    { <<"1", "2", ":", "0", "0", ":", "0", "0">>,
      <<"1", "3", ":", "0", "0", ":", "0", "0">>,
      <<"2", "4", ":", "0", "0", ":", "0", "0">> }
IsoOffsets ==
    { <<"Z">>,
      <<"+", "0", "1", ":", "0", "0">>,
      <<"-", "0", "5", ":", "3", "0">>,
      <<>>,
      <<" ", "G", "M", "T">> }

MailWeekdays ==
    { <<"M", "o", "n", ",", " ">>,
      <<"W", "e", "d", ",", " ">>,
      <<"S", "u", "n", ",", " ">>,
      <<>> }
MailDates ==
    { <<"0", "1", " ", "J", "a", "n", " ", "2", "0", "2", "4">>,
      <<"3", "1", " ", "A", "u", "g", "u", "s", "t", " ", "2", "0", "2", "5">>,
      <<"0", "2", " ", "M", "a", "y", " ", "2", "0", "2", "5">>,
      <<"3", "1", " ", "A", "u", "g", " ", "2", "0", "2", "5">>,
      <<"3", "0", " ", "F", "e", "b", "r", "u", "a", "r", "y", " ", "2", "0", "2", "4">> }
MailTimes ==
    { <<"1", "2", ":", "0", "0", ":", "0", "0">>,
      <<"0", "7", ":", "0", "0", ":", "0", "0">> }
MailZones ==
    { <<" ", "+", "0", "0", "0", "0">>,
      <<" ", "+", "0", "1", "0", "0">>,
      <<" ", "G", "M", "T">>,
      <<>> }

OtherDateTexts ==
    { <<"I", "n", "v", "a", "l", "i", "d", " ", "D", "a", "t", "e", " ", "S", "t", "r", "i", "n", "g">>,
      <<>>,
      <<"s", "o", "o", "n">>,
      <<"2", "0", "2", "4", "-", "1", "-", "5">>,
      <<" ", "2", "0", "2", "4", "-", "0", "1", "-", "0", "1">> }

T_utc_noon == <<"2", "0", "2", "4", "-", "0", "1", "-", "0", "1", "T", "1", "2", ":", "0", "0", ":", "0", "0", "Z">>
T_offset_one == <<"2", "0", "2", "4", "-", "0", "1", "-", "0", "1", "T", "1", "3", ":", "0", "0", ":", "0", "0", "+", "0", "1", ":", "0", "0">>
T_wrong_weekday == <<"W", "e", "d", ",", " ", "0", "2", " ", "M", "a", "y", " ", "2", "0", "2", "5", " ", "0", "7", ":", "0", "0", ":", "0", "0", " ", "G", "M", "T">>
T_zone_one == <<"M", "o", "n", ",", " ", "0", "1", " ", "J", "a", "n", " ", "2", "0", "2", "4", " ", "1", "2", ":", "0", "0", ":", "0", "0", " ", "+", "0", "1", "0", "0">>

DateTexts ==
    {d \o sep \o t \o o : d \in IsoDates, sep \in IsoSeparators, t \in IsoTimes, o \in IsoOffsets}
    \cup {w \o d \o <<" ">> \o t \o z :
             w \in MailWeekdays, d \in MailDates, t \in MailTimes, z \in MailZones}
    \cup IsoDates \cup OtherDateTexts

InitDate ==
    /\ \E text \in DateTexts : doc = Some(text)
    /\ out = None
    /\ root = U1 /\ defaultauthor = <<>>
    /\ web = NoWeb /\ stack = <<>> /\ ret = None /\ last = None
    /\ efeed = None /\ eret = None

\* parse_date(date_str) is called and returns
ParseDate ==
    /\ IsNone(out)
    /\ out' = Some(parse_date(Get(doc)))
    /\ UNCHANGED <<web, root, stack, ret, last, efeed, eret, doc, defaultauthor>>

NextDate == ParseDate

SpecDate == InitDate /\ [][NextDate]_vars

----------------------------------------------------------------------------
(* Properties of the resolver *)

\* the call that returned last was an HTML hop: discovery ran and gave candidates
HopReturned == IsSome(last) /\ IsSome(Get(last).all)
\* the candidates the hop may try: the first three discovered, in document order
HopCandidates == Take(Get(Get(last).all), 3)
HopTried == Get(last).tried
HopResult == Get(last).result

\* the page at u is served with a 2xx status as a well-formed feed
ServesFeed(u) ==
    /\ web[u].send = "ok" /\ is_success(web[u].status) /\ IsSome(web[u].body)
    /\ ~is_html(Get(web[u].body).text)
    /\ IsSome(Get(web[u].body).xml)

\* C1: an HTML hop tries its first three candidates in document order, a
\* failed candidate is followed by the next one, and a hop that succeeds
\* returns exactly the result of the first candidate whose call succeeded.
C1_FirstSuccessfulCandidate ==
    HopReturned =>
        /\ Len(HopTried) <= Len(HopCandidates)
        /\ \A j \in 1..Len(HopTried) : HopTried[j].url = HopCandidates[j]
        /\ \A j \in 1..(Len(HopTried) - 1) : ~HopTried[j].result.ok
        /\ HopResult.ok =>
              /\ Len(HopTried) >= 1
              /\ HopTried[Len(HopTried)].result.ok
              /\ HopResult = HopTried[Len(HopTried)].result
        /\ ~HopResult.ok =>
              /\ Len(HopTried) = Len(HopCandidates)
              /\ \A j \in 1..Len(HopTried) : ~HopTried[j].result.ok

\* a hop returned the result of its third candidate after two failures, the
\* first of them a nested discovery failure
C1_Witness ==
    /\ HopReturned /\ HopResult.ok
    /\ Len(HopTried) = 3
    /\ HopTried[1].result.err.kind = "NoEmbeddedFeed"
    /\ HopResult = HopTried[3].result

\* C2: a hop whose first three candidates all failed (or that discovered
\* none) fails with the one error NoEmbeddedFeed naming the hop's own url.
C2_NoEmbeddedFeed ==
    HopReturned =>
        ( (\A j \in 1..Len(HopCandidates) :
                j <= Len(HopTried) /\ ~HopTried[j].result.ok)
          => HopResult = Err([kind |-> "NoEmbeddedFeed", url |-> Get(last).url]) )

\* a hop failed although its fourth candidate is served as a feed
C2_Witness ==
    /\ HopReturned /\ ~HopResult.ok
    /\ Len(Get(Get(last).all)) >= 4
    /\ ServesFeed(Get(Get(last).all)[4])
    /\ \A j \in 1..3 : Get(Get(last).all)[j] # Get(Get(last).all)[4]
    /\ Len(HopTried) = 3

\* a hop that discovered no candidate failed
C2_WitnessNone ==
    /\ HopReturned /\ ~HopResult.ok /\ Get(Get(last).all) = <<>>

\* C4: a successful call returns the body of a fetched page that does not
\* sniff as HTML with the parse of that body; feed_url is the url that page
\* was fetched from: the call's own url for a direct fetch, a discovered
\* candidate for a hop.  Only a call whose body is not HTML hands it to parse.
C4_ResultIsFetchedFeed ==
    IsSome(last) =>
        /\ Get(last).result.ok =>
              LET v == Get(last).result.val
                  u == v.feed.feed_url
              IN  /\ u \in Urls
                  /\ ServesFeed(u)
                  /\ v.body = Get(web[u].body)
                  /\ Ok(v.feed) = parse(v.body.xml, u)
                  /\ IsNone(Get(last).all) => u = Get(last).url
                  /\ IsSome(Get(last).all) =>
                        /\ u # Get(last).url
                        /\ \/ u = HopTried[Len(HopTried)].url
                           \/ ~ServesFeed(HopTried[Len(HopTried)].url)
        /\ "parse" \in Get(last).did =>
              /\ IsNone(Get(last).all)
              /\ ~is_html(Get(web[Get(last).url].body).text)

\* the outermost call returned a feed reached through two HTML hops
C4_Witness ==
    /\ Done /\ Get(ret).ok
    /\ HopReturned
    /\ Get(last).url = root
    /\ Get(ret).val.feed.feed_url # HopTried[Len(HopTried)].url
    /\ Get(ret).val.feed.feed_url # root

\* the page at u answers with a status outside 2xx
Refused(u) == web[u].send = "ok" /\ (web[u].status < 200 \/ web[u].status >= 300)

\* C3: a call of get_feed_with_data whose response has a status outside 2xx
\* returns the error that carries the url and the status and does nothing
\* else with the response: no sniffing, discovery, recursion or parsing; and
\* get_feed_entries on such a feed_url returns that error and no entries.
C3_StatusIsHardFailure ==
    /\ (IsSome(last) /\ Refused(Get(last).url)) =>
          /\ Get(last).result = Err([kind |-> "Status", url |-> Get(last).url,
                                    status |-> web[Get(last).url].status])
          /\ Get(last).did = {"send"}
          /\ IsNone(Get(last).all) /\ Get(last).tried = <<>>
    /\ (IsSome(eret) /\ Refused(Get(efeed).feed_url)) =>
          /\ Get(eret).result = Err([kind |-> "Status", url |-> Get(efeed).feed_url,
                                     status |-> web[Get(efeed).feed_url].status])
          /\ Get(eret).did = {"send"}

\* the call was refused, and so was the request for the entries of a feed
C3_Witness ==
    /\ IsSome(last) /\ Refused(Get(last).url)
    /\ ~Get(last).result.ok /\ Get(last).result.err.kind = "Status"
    /\ IsSome(eret) /\ Refused(Get(efeed).feed_url)
    /\ ~Get(eret).result.ok /\ Get(eret).result.err.kind = "Status"

\* a candidate of an HTML hop was refused
C3_WitnessHop ==
    /\ IsSome(last) /\ stack # <<>> /\ Refused(Get(last).url)
    /\ IsSome(ret) /\ ~Get(ret).ok /\ Get(ret).err.kind = "Status"

\* the first url discovery yields on a page, if it yields one
RECURSIVE FirstFeedUrl(_, _)
FirstFeedUrl(dom, url) ==
    IF dom = <<>> THEN None
    ELSE LET one == feed_urls(<<Head(dom)>>, url)
         IN  IF one # <<>> THEN Some(one[1]) ELSE FirstFeedUrl(Tail(dom), url)

\* the first url is served as an HTML page whose first feed link is itself
SelfCycle ==
    /\ web[root].send = "ok" /\ is_success(web[root].status) /\ IsSome(web[root].body)
    /\ is_html(Get(web[root].body).text)
    /\ ~Get(web[root].body).toolarge
    /\ FirstFeedUrl(Get(web[root].body).dom, root) = Some(root)

\* C5: on a page whose first feed link is itself the call never returns:
\* no call has returned, every call in progress is a call on that page that
\* waits for its first candidate, and the innermost call is about to fetch
\* the page or to recurse on it again, as deep as the model follows it.
C5_CycleNeverReturns ==
    SelfCycle =>
        /\ ~Done
        /\ IsNone(ret) /\ IsNone(last)
        /\ stack # <<>>
        /\ \A i \in 1..Len(stack) : stack[i].url = root
        /\ \A i \in 1..(Len(stack) - 1) :
              stack[i].pc = "iter" /\ stack[i].taken = 1 /\ stack[i].tried = <<>>
        /\ \/ Top.pc = "fetch"
           \/ Top.pc = "iter" /\ Top.taken = 0 /\ Take(Top.cands, 1) = <<root>>

\* the recursion on the self-linking page is as deep as the model follows it
C5_Witness == SelfCycle /\ Len(stack) = MaxDepth /\ Top.pc = "iter"

\* the candidates of the hop of frame f that have failed so far
FailedSoFar(f) == \A j \in 1..Len(f.tried) : ~f.tried[j].result.ok

\* C18: the candidates of one HTML hop are fetched one after another in the
\* order of discovery: while the call of candidate k+1 is in progress the
\* calls of the candidates 1 to k have returned, all with an error; a hop
\* that is about to go on has only failures behind it; no call is started
\* for a candidate after the third, so a hop starts at most 3 calls; only
\* the innermost call fetches.
C18_SequentialCandidates ==
    \A k \in 1..Len(stack) :
        LET f == stack[k]
        IN  /\ k < Len(stack) => f.pc = "iter"
            /\ f.pc = "iter" =>
                  /\ f.taken <= 3
                  /\ f.taken <= Len(Get(f.all))
                  /\ f.cands = SubSeq(Get(f.all), f.taken + 1, Len(Get(f.all)))
                  /\ \A j \in 1..Len(f.tried) : f.tried[j].url = Get(f.all)[j]
                  /\ IF k < Len(stack)
                     THEN /\ f.taken = Len(f.tried) + 1
                          /\ stack[k + 1].url = Get(f.all)[f.taken]
                          /\ FailedSoFar(f)
                     ELSE IF IsSome(ret)
                     THEN /\ f.taken = Len(f.tried) + 1
                          /\ Get(last).url = Get(f.all)[f.taken]
                          /\ FailedSoFar(f)
                     ELSE /\ f.taken = Len(f.tried)
                          /\ FailedSoFar(f)

\* a hop with four candidates has its third call in progress: the first
\* two have returned with an error, the first of them after a whole nested
\* discovery, and the fourth is left
C18_Witness ==
    /\ Len(stack) = 2
    /\ stack[1].pc = "iter" /\ stack[2].pc = "fetch"
    /\ Len(Get(stack[1].all)) = 4
    /\ stack[1].taken = 3
    /\ Len(stack[1].tried) = 2
    /\ stack[1].tried[1].result.err.kind = "NoEmbeddedFeed"
    /\ ~stack[1].tried[2].result.ok
    /\ stack[2].url = Get(stack[1].all)[3]
    /\ Len(stack[1].cands) = 1

\* a hop with four candidates returned the success of its second call: the
\* third and the fourth were never called
C18_WitnessStops ==
    /\ HopReturned /\ HopResult.ok
    /\ stack = <<>>
    /\ Len(Get(Get(last).all)) = 4
    /\ Len(HopTried) = 2
    /\ ~HopTried[1].result.ok /\ HopTried[2].result.ok

----------------------------------------------------------------------------
(* Properties of the entry-level parser *)

Returned == IsSome(out) /\ IsSome(doc)
Entries == Get(out).val

\* the nodes named item or entry, in document order
EntryNodes ==
    SelectSeq(Descendants(Get(doc)), LAMBDA t : t.name = "item" \/ t.name = "entry")

\* the text of the first title of a node
TitleText(n) == Get(TextOf(FindNamed(n, {"title"})))

\* C6: on a well-formed document get_feed_entries_doc returns one FeedEntry
\* per node named item or entry, nested ones included, in document order; an
\* entry whose date text does not normalize is there with the default instant.
C6_OneEntryPerNode ==
    Returned =>
        /\ Get(out).ok
        /\ Len(Entries) = Len(EntryNodes)
        /\ \A i \in 1..Len(EntryNodes) :
              /\ i <= Len(Entries)
              /\ Entries[i].title = TitleText(EntryNodes[i])
              /\ ~parse_date(EntryDateText(EntryNodes[i])).ok =>
                    Entries[i].date = DefaultInstant

\* two entries, the second nested in the first; the date of the first
\* normalizes, the date of the second does not
C6_Witness ==
    /\ Returned /\ Get(out).ok
    /\ Len(Entries) = 2
    /\ \E k \in 1..Len(EntryNodes[1].kids) : EntryNodes[1].kids[k] = EntryNodes[2]
    /\ Entries[1].date = Instant(2024, 1, 2, 0, 0, 0, 0)
    /\ ~parse_date(EntryDateText(EntryNodes[2])).ok
    /\ Entries[2].date = DefaultInstant

\* the descendants of an entry that carry one of the four date names
DateNodes(e) ==
    SelectSeq(Descendants(e),
              LAMBDA t : t.name \in {"published", "updated", "date", "pubDate"})

\* C7: the date of an entry is read from the first descendant named
\* published, updated, date or pubDate, whichever of the names it has; when
\* there is none, or that first node has no text, the date is midnight UTC of
\* 1990-09-19.
C7_FirstDateNode ==
    (Returned /\ Get(out).ok) =>
        \A i \in 1..Len(EntryNodes) :
            LET dn == DateNodes(EntryNodes[i])
                date == Entries[i].date
            IN  IF dn = <<>> \/ IsNone(dn[1].text)
                THEN date = Instant(1990, 9, 19, 0, 0, 0, 0)
                ELSE LET r == parse_date(Get(dn[1].text))
                     IN  date = IF r.ok THEN r.val ELSE DefaultInstant

\* the first date node of an entry has no text, a later one has a text that
\* normalizes: the date is the placeholder's
C7_Witness ==
    /\ Returned /\ Get(out).ok
    /\ \E i \in 1..Len(EntryNodes) :
          LET dn == DateNodes(EntryNodes[i])
          IN  /\ Len(dn) >= 2
              /\ IsNone(dn[1].text)
              /\ IsSome(dn[2].text) /\ parse_date(Get(dn[2].text)).ok
              /\ Entries[i].date = Instant(1990, 9, 19, 0, 0, 0, 0)

\* the descendants of an entry the url scan stops at
UrlNodes(e) ==
    SelectSeq(Descendants(e),
              LAMBDA t : \/ t.name = "id" /\ IsSome(t.text) /\ IsHttpUrl(Get(t.text))
                         \/ t.name = "enclosure" /\ IsSome(t.url) /\ IsHttpUrl(Get(t.url))
                         \/ t.name = "link")

\* C8: the url of an entry comes from the first descendant that is an id
\* with an http(s) text, an enclosure with an http(s) url attribute, or a
\* link: its text, else its url attribute, else its href attribute; it is
\* "NOURL" when no node matches.
C8_FirstUrlNode ==
    (Returned /\ Get(out).ok) =>
        \A i \in 1..Len(EntryNodes) :
            LET un == UrlNodes(EntryNodes[i])
                url == Entries[i].url
            IN  /\ un = <<>> => url = T_NOURL
                /\ (un # <<>> /\ IsSome(un[1].text)) => url = Get(un[1].text)
                /\ (un # <<>> /\ IsNone(un[1].text) /\ IsSome(un[1].url)) =>
                      url = Get(un[1].url)
                /\ (un # <<>> /\ IsNone(un[1].text) /\ IsNone(un[1].url)
                      /\ IsSome(un[1].href)) => url = Get(un[1].href)

\* a link with an href, then an http(s) id: the url is the link's href
C8_Witness ==
    /\ Returned /\ Get(out).ok
    /\ \E i \in 1..Len(EntryNodes) :
          LET kids == EntryNodes[i].kids
          IN  /\ Len(kids) = 3
              /\ kids[2] = Attr("link", None, Some(U1))
              /\ kids[3] = Leaf("id", U2)
              /\ Entries[i].url = U1

\* an http(s) id, then a link: the url is the id's text
C8_WitnessIdFirst ==
    /\ Returned /\ Get(out).ok
    /\ \E i \in 1..Len(EntryNodes) :
          LET kids == EntryNodes[i].kids
          IN  /\ Len(kids) = 3
              /\ kids[2] = Leaf("id", U2)
              /\ kids[3] = Attr("link", None, Some(U1))
              /\ Entries[i].url = U2

\* the descendants of an entry named author or creator
AuthorNodes(e) ==
    SelectSeq(Descendants(e), LAMBDA t : t.name = "author" \/ t.name = "creator")

\* the name nodes nested in an author node
NameNodes(a) == SelectSeq(Descendants(a), LAMBDA t : t.name = "name")

\* C9 as stated: the author is the text of a name node nested in the first
\* author or creator node if one of them has a text, else that node's own
\* text, else default_author; default_author when there is no such node.
C9_AnyNameWithText ==
    (Returned /\ Get(out).ok) =>
        \A i \in 1..Len(EntryNodes) :
            LET an == AuthorNodes(EntryNodes[i])
                author == Entries[i].author
            IN  IF an = <<>> THEN author = defaultauthor
                ELSE LET named == SelectSeq(NameNodes(an[1]), LAMBDA t : IsSome(t.text))
                     IN  IF named # <<>>
                         THEN \E k \in 1..Len(named) : author = Get(named[k].text)
                         ELSE IF IsSome(an[1].text) THEN author = Get(an[1].text)
                         ELSE author = defaultauthor

\* C9, amended: the author is the text of the first name node nested in the
\* first author or creator node if that name node has a text, else the
\* author or creator node's own text, else default_author; default_author
\* when the entry has no author or creator node.
C9_FirstNameNode ==
    (Returned /\ Get(out).ok) =>
        \A i \in 1..Len(EntryNodes) :
            LET an == AuthorNodes(EntryNodes[i])
                author == Entries[i].author
            IN  IF an = <<>> THEN author = defaultauthor
                ELSE LET names == NameNodes(an[1])
                     IN  IF names # <<>> /\ IsSome(names[1].text)
                         THEN author = Get(names[1].text)
                         ELSE IF IsSome(an[1].text) THEN author = Get(an[1].text)
                         ELSE author = defaultauthor

\* the first name node of the author has no text and a later one has: the
\* author is the author node's own text
C9_Witness ==
    /\ Returned /\ Get(out).ok
    /\ \E i \in 1..Len(EntryNodes) :
          LET an == AuthorNodes(EntryNodes[i])
          IN  /\ an # <<>>
              /\ Len(NameNodes(an[1])) = 2
              /\ IsNone(NameNodes(an[1])[1].text)
              /\ IsSome(NameNodes(an[1])[2].text)
              /\ IsSome(an[1].text)
              /\ Entries[i].author = Get(an[1].text)
              /\ Entries[i].author # defaultauthor

\* the descendants of an entry named content or encoded
ContentNodes(e) ==
    SelectSeq(Descendants(e), LAMBDA t : t.name = "content" \/ t.name = "encoded")

\* the descendants of an entry named description or summary
SummaryNodes(e) ==
    SelectSeq(Descendants(e), LAMBDA t : t.name = "description" \/ t.name = "summary")

\* the conversion of what a node holds as text, nothing when it has none
Converted(n) == parse_html(UnwrapOr(n.text, <<>>))

\* what a description is derived to from a converted text
Derived(t) == strip_markdown_tags(Take(RemoveNewlines(t), DescriptionMax))

\* C10 as stated: text is the conversion of the first content or encoded node
\* when there is one, else of the first description or summary node, else
\* empty; description is derived from the first description or summary node
\* when there is one, and from text only when there is none.
C10_NodePresent ==
    (Returned /\ Get(out).ok) =>
        \A i \in 1..Len(EntryNodes) :
            LET cn == ContentNodes(EntryNodes[i])
                sn == SummaryNodes(EntryNodes[i])
            IN  /\ Entries[i].text =
                      IF cn # <<>> THEN Converted(cn[1])
                      ELSE IF sn # <<>> THEN Converted(sn[1]) ELSE <<>>
                /\ Entries[i].description =
                      IF sn # <<>> THEN Derived(Converted(sn[1]))
                      ELSE Derived(Entries[i].text)

\* C10, amended: text is the conversion of the first content or encoded node
\* when that node has a text, else of the first description or summary node
\* when that node has a text, else empty; description is derived from the
\* first description or summary node when that node has a text (also when
\* there is a content node), and from text otherwise.
C10_NodeWithText ==
    (Returned /\ Get(out).ok) =>
        \A i \in 1..Len(EntryNodes) :
            LET cn == ContentNodes(EntryNodes[i])
                sn == SummaryNodes(EntryNodes[i])
                hasc == cn # <<>> /\ IsSome(cn[1].text)
                hass == sn # <<>> /\ IsSome(sn[1].text)
            IN  /\ Entries[i].text =
                      IF hasc THEN Converted(cn[1])
                      ELSE IF hass THEN Converted(sn[1]) ELSE <<>>
                /\ Entries[i].description =
                      IF hass THEN Derived(Converted(sn[1]))
                      ELSE Derived(Entries[i].text)

\* the first content node of an entry has no text and its first description
\* has: text is the converted description
C10_Witness ==
    /\ Returned /\ Get(out).ok
    /\ \E i \in 1..Len(EntryNodes) :
          LET cn == ContentNodes(EntryNodes[i])
              sn == SummaryNodes(EntryNodes[i])
          IN  /\ cn # <<>> /\ IsNone(cn[1].text)
              /\ sn # <<>> /\ IsSome(sn[1].text)
              /\ Entries[i].text = Converted(sn[1])
              /\ Entries[i].text # <<>>

\* a content node with a text and a description with a text: each field
\* comes from its own node
C10_WitnessBoth ==
    /\ Returned /\ Get(out).ok
    /\ \E i \in 1..Len(EntryNodes) :
          LET cn == ContentNodes(EntryNodes[i])
              sn == SummaryNodes(EntryNodes[i])
          IN  /\ cn # <<>> /\ IsSome(cn[1].text)
              /\ sn # <<>> /\ IsSome(sn[1].text)
              /\ Entries[i].text = Converted(cn[1])
              /\ Entries[i].description = Derived(Converted(sn[1]))
              /\ Entries[i].description # Derived(Entries[i].text)

\* C11: every FeedEntry that get_feed_entries_doc produces has a description
\* of at most 280 characters with no newline in it, whether it is derived
\* from a description or summary node or from the text.
C11_DescriptionBounded ==
    (Returned /\ Get(out).ok) =>
        \A i \in 1..Len(Entries) :
            /\ Len(Entries[i].description) <= DescriptionMax
            /\ \A k \in 1..Len(Entries[i].description) : Entries[i].description[k] # "\n"

\* an entry without a description or summary, whose text has newlines and is
\* longer than 280 without them: its description is cut to 280, without newline
C11_Witness ==
    /\ Returned /\ Get(out).ok
    /\ \E i \in 1..Len(EntryNodes) :
          /\ SummaryNodes(EntryNodes[i]) = <<>>
          /\ \E k \in 1..Len(Entries[i].text) : Entries[i].text[k] = "\n"
          /\ Len(RemoveNewlines(Entries[i].text)) > DescriptionMax
          /\ Len(Entries[i].description) = DescriptionMax

\* an entry whose description node converts to a text with newlines, longer
\* than 280 without them: its description is cut to 280, without newline
C11_WitnessSummary ==
    /\ Returned /\ Get(out).ok
    /\ \E i \in 1..Len(EntryNodes) :
          LET sn == SummaryNodes(EntryNodes[i])
          IN  /\ sn # <<>> /\ IsSome(sn[1].text)
              /\ \E k \in 1..Len(Converted(sn[1])) : Converted(sn[1])[k] = "\n"
              /\ Len(RemoveNewlines(Converted(sn[1]))) > DescriptionMax
              /\ Len(Entries[i].description) = DescriptionMax

\* the pipeline in the order the specification states it: strip the markdown
\* syntax, strip the newlines, truncate
StatedPipeline(t) == Take(RemoveNewlines(strip_markdown_tags(t)), DescriptionMax)

\* C17: the description of an entry is the result of converting the markup,
\* stripping the markdown syntax, stripping the newlines and truncating to
\* 280 characters, in this order, applied to the description or summary
\* text, and to the converted text when there is no description or summary.
C17_StatedOrder ==
    (Returned /\ Get(out).ok) =>
        \A i \in 1..Len(EntryNodes) :
            LET sn == SummaryNodes(EntryNodes[i])
            IN  /\ (sn # <<>> /\ IsSome(sn[1].text)) =>
                      Entries[i].description = StatedPipeline(Converted(sn[1]))
                /\ sn = <<>> => Entries[i].description = StatedPipeline(Entries[i].text)

\* a description that starts with a bold word and is longer than 280: the
\* code cuts before it strips, and the description is shorter than 280
C17_DivergenceReached ==
    /\ Returned /\ Get(out).ok
    /\ \E i \in 1..Len(EntryNodes) :
          LET sn == SummaryNodes(EntryNodes[i])
          IN  /\ sn # <<>> /\ sn[1].text = Some(BoldThenLong)
              /\ Len(Entries[i].description) = DescriptionMax - 4
              /\ Len(StatedPipeline(Converted(sn[1]))) = DescriptionMax

----------------------------------------------------------------------------
(* Properties of the feed-level parser *)

\* the FeedItem that parse returned
Feed == Get(out).val

\* the nodes of the document named author, in document order
FeedAuthorNodes == SelectSeq(Descendants(Get(doc)), LAMBDA t : t.name = "author")

\* the nodes of the document named link, in document order
FeedLinkNodes == SelectSeq(Descendants(Get(doc)), LAMBDA t : t.name = "link")

\* C12 as stated: the author of the feed is the text of a name node inside
\* the first author node of the document if one of them has a text, else the
\* author node's own text, else the feed title; the feed title when the
\* document has no author node.
C12_AnyNameWithText ==
    (Returned /\ Get(out).ok) =>
        LET an == FeedAuthorNodes
        IN  IF an = <<>> THEN Feed.author = Feed.title
            ELSE LET named == SelectSeq(NameNodes(an[1]), LAMBDA t : IsSome(t.text))
                 IN  IF named # <<>>
                     THEN \E k \in 1..Len(named) : Feed.author = Get(named[k].text)
                     ELSE IF IsSome(an[1].text) THEN Feed.author = Get(an[1].text)
                     ELSE Feed.author = Feed.title

\* C12, amended: the author of the feed is the text of the first name node
\* inside the first author node of the document if that name node has a
\* text, else the author node's own text, else the feed title; the feed
\* title when the document has no author node.
C12_FirstNameNode ==
    (Returned /\ Get(out).ok) =>
        LET an == FeedAuthorNodes
        IN  IF an = <<>> THEN Feed.author = Feed.title
            ELSE LET names == NameNodes(an[1])
                 IN  IF names # <<>> /\ IsSome(names[1].text)
                     THEN Feed.author = Get(names[1].text)
                     ELSE IF IsSome(an[1].text) THEN Feed.author = Get(an[1].text)
                     ELSE Feed.author = Feed.title

\* the first author node of the document is the one of an item, a feed-level
\* author with a name comes after it: the author is the item's
C12_WitnessItemLevel ==
    /\ Returned /\ Get(out).ok
    /\ Len(FeedAuthorNodes) = 2
    /\ FeedAuthorNodes[1] \in Range(FeedItemNode.kids)
    /\ NameNodes(FeedAuthorNodes[2]) # <<>>
    /\ Feed.author = Get(FeedAuthorNodes[1].text)
    /\ Feed.author # Feed.title

\* the first name node of the first author has no text and a later one has:
\* the author is the author node's own text
C12_Witness ==
    /\ Returned /\ Get(out).ok
    /\ FeedAuthorNodes # <<>>
    /\ Len(NameNodes(FeedAuthorNodes[1])) = 2
    /\ IsNone(NameNodes(FeedAuthorNodes[1])[1].text)
    /\ IsSome(NameNodes(FeedAuthorNodes[1])[2].text)
    /\ Feed.author = Get(FeedAuthorNodes[1].text)

\* an author node without name and without text, and a title: the author is
\* the normalized title
C12_WitnessTitle ==
    /\ Returned /\ Get(out).ok
    /\ FeedAuthorNodes # <<>>
    /\ NameNodes(FeedAuthorNodes[1]) = <<>> /\ IsNone(FeedAuthorNodes[1].text)
    /\ Feed.title # <<>>
    /\ Feed.author = Feed.title

\* C13: the url of the feed comes from the first link node of the document:
\* its text when it has one, else its href; it is the feed_url parameter
\* when there is no link node and when the first one has neither, whatever
\* the later link nodes hold.
C13_FirstLinkNode ==
    (Returned /\ Get(out).ok) =>
        LET ln == FeedLinkNodes
        IN  /\ Feed.url =
                  IF ln = <<>> THEN root
                  ELSE IF IsSome(ln[1].text) THEN Get(ln[1].text)
                  ELSE IF IsSome(ln[1].href) THEN Get(ln[1].href)
                  ELSE root
            /\ Feed.feed_url = root

\* the first link node has neither text nor href and a later one has a
\* text: the url is the feed_url parameter
C13_Witness ==
    /\ Returned /\ Get(out).ok
    /\ Len(FeedLinkNodes) = 2
    /\ IsNone(FeedLinkNodes[1].text) /\ IsNone(FeedLinkNodes[1].href)
    /\ IsSome(FeedLinkNodes[2].text)
    /\ Feed.url = root
    /\ Feed.url # Get(FeedLinkNodes[2].text)

\* the first link node has a text and an href: the url is the text
C13_WitnessText ==
    /\ Returned /\ Get(out).ok
    /\ FeedLinkNodes # <<>>
    /\ IsSome(FeedLinkNodes[1].text) /\ IsSome(FeedLinkNodes[1].href)
    /\ Feed.url = Get(FeedLinkNodes[1].text)
    /\ Feed.url # Get(FeedLinkNodes[1].href)

\* the first link node has an href only: the url is the href
C13_WitnessHref ==
    /\ Returned /\ Get(out).ok
    /\ FeedLinkNodes # <<>>
    /\ IsNone(FeedLinkNodes[1].text) /\ IsSome(FeedLinkNodes[1].href)
    /\ Feed.url = Get(FeedLinkNodes[1].href)
    /\ Feed.url # root

----------------------------------------------------------------------------
(* Properties of the sniffing *)

\* the text of the body served at the first url
RootText == Get(web[root].body).text

\* after k leading whitespace characters, and no more, the text goes on with p
MarkAfterWhitespace(t, p) ==
    \E k \in 0..Len(t) :
        /\ \A i \in 1..k : t[i] \in {" ", "\n", "\t", "\r"}
        /\ Len(t) >= k + Len(p)
        /\ \A i \in 1..Len(p) : t[k + i] = p[i]

HtmlMarked(t) ==
    \/ MarkAfterWhitespace(t, <<"<", "!", "D", "O", "C", "T", "Y", "P", "E", " ", "h", "t", "m", "l">>)
    \/ MarkAfterWhitespace(t, <<"<", "h", "t", "m", "l">>)
    \/ MarkAfterWhitespace(t, <<"<", "H", "T", "M", "L">>)

\* the outermost call has returned
RootReturned == stack = <<>> /\ IsSome(last) /\ Get(last).url = root

\* C14: is_html(text) is true exactly when the text, after its leading
\* whitespace, starts with "<!DOCTYPE html" in this case, "<html" or "<HTML";
\* a body that is not HTML in this sense (a lower-case doctype, "<Html") is
\* handed to the feed-level parser by the resolver and no links are looked
\* for in it, a body that is HTML is handed to the discovery and not parsed.
C14_SniffExact ==
    /\ is_html(RootText) <=> HtmlMarked(RootText)
    /\ RootReturned =>
          /\ "sniff" \in Get(last).did
          /\ "parse" \in Get(last).did <=> ~HtmlMarked(RootText)
          /\ "discover" \in Get(last).did <=> HtmlMarked(RootText)
          /\ ~HtmlMarked(RootText) => Get(last).result = FeedResult(Get(web[root].body), root)

\* a body that starts with whitespace and a lower-case doctype: the resolver
\* handed it to the feed-level parser, which refused it
C14_Witness ==
    /\ RootReturned
    /\ RootText = <<"\n", "\t">> \o T_doctype_html \o <<">">>
    /\ ~is_html(RootText)
    /\ "parse" \in Get(last).did
    /\ ~Get(last).result.ok

\* a body that starts with <Html: the resolver returned what the feed-level
\* parser made of it
C14_WitnessMixedCase ==
    /\ RootReturned
    /\ StartsWith(RootText, T_Html)
    /\ "parse" \in Get(last).did
    /\ Get(last).result.ok

\* a body that starts with whitespace and <!DOCTYPE html: the resolver
\* returned the feed its link leads to
C14_WitnessHtml ==
    /\ RootReturned
    /\ RootText = <<"\r", "\n", " ", " ">> \o T_DOCTYPE_HTML
    /\ is_html(RootText)
    /\ "discover" \in Get(last).did
    /\ Get(last).result.ok

----------------------------------------------------------------------------
(* Properties of the discovery *)

\* the elements of the document, in document order
Dom == Get(doc).dom

\* what the Parser has yielded so far, and whether it has ended
Yielded == Get(out).val.yielded
Ended == Get(out).val.ended

\* the type of an element names a feed
FeedTyped(e) ==
    /\ IsSome(e.type)
    /\ \/ contains(to_lowercase(Get(e.type)), <<"a", "t", "o", "m">>)
       \/ contains(to_lowercase(Get(e.type)), <<"r", "s", "s">>)

\* the hrefs, resolved against the base url, of the elements of a sequence
Resolved(elems) == [i \in 1..Len(elems) |-> Get(UrlJoin(root, Get(elems[i].href)))]

\* a resolved url is the absolute href itself, or the href joined to the base
ResolvedFrom(u, href) ==
    /\ IsSome(UrlParse(href)) => u = href
    /\ (IsNone(UrlParse(href)) /\ StartsWith(href, <<"/">>)) => u = Origin(root) \o href
    /\ IsSome(UrlParse(u))

C15_WitnessBoth ==
    /\ IsSome(out) /\ Get(out).ok /\ Ended
    /\ Len(Dom) = 2
    /\ Dom[1].href = Some(<<"c">>) /\ Dom[2].href = Some(U2)
    /\ root = T_deep
    /\ Yielded = <<<<"h", "t", "t", "p", ":", "/", "/", "h", "/", "d", "/", "c">>, U2>>

\* elements that are no feed links only: the Parser ended without a url
C15_WitnessNone ==
    /\ IsSome(out) /\ Get(out).ok /\ Ended
    /\ Len(Dom) = 2
    /\ Yielded = <<>>

----------------------------------------------------------------------------
(* Properties of the date normalizer *)

DateText == Get(doc)
DateResult == Get(out)

\* C16: parse_date returns the UTC instant of the first of RFC3339, RFC2822,
\* naive date and time, cleaned date (tokens 2 to 5 of a text of at least 5
\* tokens, whatever the weekday says), naive date that succeeds, and an
\* error exactly when all five fail; an offset is normalized away, a date
\* alone is midnight UTC of that day, a naive date and time is taken as UTC.
C16_FirstFormatWins ==
    IsSome(out) =>
        LET s == DateText
            tokens == SplitWhitespace(s)
        IN  /\ DateResult =
                  IF IsSome(ParseRfc3339(s)) THEN Ok(Get(ParseRfc3339(s)))
                  ELSE IF IsSome(ParseRfc2822(s)) THEN Ok(Get(ParseRfc2822(s)))
                  ELSE IF IsSome(ParseNaiveDateTime(s)) THEN Ok(Get(ParseNaiveDateTime(s)))
                  ELSE IF IsSome(ParseCleaned(s)) THEN Ok(Get(ParseCleaned(s)))
                  ELSE IF IsSome(ParseNaiveDate(s)) THEN Ok(Get(ParseNaiveDate(s)))
                  ELSE Err([kind |-> "DateNormalizationFailure", text |-> s])
            /\ ~DateResult.ok <=>
                  /\ IsNone(ParseRfc3339(s)) /\ IsNone(ParseRfc2822(s))
                  /\ IsNone(ParseNaiveDateTime(s)) /\ IsNone(ParseCleaned(s))
                  /\ IsNone(ParseNaiveDate(s))
            /\ IsSome(ParseCleaned(s)) =>
                  /\ Len(tokens) >= 5
                  /\ ParseCleaned(s) = ParseCleaned(<<"x">> \o <<" ">> \o
                                           JoinWith(SubSeq(tokens, 2, 5), <<" ">>) \o <<" ", "x">>)
            /\ s \in {T_utc_noon, T_offset_one} => DateResult = Ok(1704110400)
            /\ s = T_wrong_weekday => DateResult = Ok(1746169200)
            /\ s \in IsoDates /\ DateResult.ok =>
                  /\ DateResult.val % 86400 = 0
                  /\ DateResult = Ok(Get(ParseRfc3339(s \o <<"T", "0", "0", ":", "0", "0", ":",
                                                            "0", "0", "Z">>)))
            /\ (Len(tokens) = 2 /\ IsSome(ParseNaiveDateTime(s))) =>
                  DateResult = Ok(Get(ParseRfc3339(tokens[1] \o <<"T">> \o tokens[2] \o <<"Z">>)))

\* a text that is RFC2822 with an offset and whose tokens 2 to 5 are a
\* cleaned date: the instant is the one of RFC2822, an hour before the
\* cleaned date's
C16_Witness ==
    /\ IsSome(out) /\ DateResult.ok
    /\ DateText = T_zone_one
    /\ IsNone(ParseRfc3339(DateText))
    /\ IsSome(ParseRfc2822(DateText)) /\ IsSome(ParseCleaned(DateText))
    /\ DateResult.val = Get(ParseRfc2822(DateText))
    /\ DateResult.val = Get(ParseCleaned(DateText)) - 3600

\* a weekday that is not the date's: RFC2822 refuses the text, the cleaned
\* date gives the instant
C16_WitnessWeekday ==
    /\ IsSome(out) /\ DateResult.ok
    /\ DateText = T_wrong_weekday
    /\ IsNone(ParseRfc2822(DateText))
    /\ DateResult.val = Get(ParseCleaned(DateText))

\* all five attempts fail: an error
C16_WitnessError ==
    /\ IsSome(out) /\ ~DateResult.ok
    /\ DateText = <<"2", "0", "2", "3", "-", "0", "2", "-", "2", "9">>

\* an offset of one hour: the instant of noon UTC
C16_WitnessOffset ==
    /\ IsSome(out) /\ DateText = T_offset_one
    /\ DateResult = Ok(Instant(2024, 1, 1, 12, 0, 0, 0))

====
